---- MODULE Spec2Model ----
(***************************************************************************)
(* Candidate scoring and ranking engine (scoring_engine.py) together with  *)
(* the location matcher it depends on (location_service.py) and the        *)
(* orchestrator's scoring entry point (main.py).                           *)
(*                                                                         *)
(* Numbers: Python floats are binary64 values, computed with the rounding  *)
(* of each operation.  Strings are TLA+ strings; Python's "in", lower()    *)
(* and strip() are computed character by character.                        *)
(***************************************************************************)
EXTENDS Integers, Naturals, Sequences, FiniteSets, TLC

VARIABLES
  weights,            \* ScoringEngine.weights: key -> float; <<>> before construction
  engine,             \* "none" | "ready" | "error" (ValueError from __init__)
  supplied,           \* the weights argument given to __init__ ("None" tag or a map)
  job,                \* the ParsedJobDescription of the running rank_candidates call
  candidates,         \* the caller's candidate list of that call
  pc,                 \* position inside score_candidates / rank_candidates
  idx,                \* loop index of the running loop
  filtered_candidates,\* rank_candidates local: survivors of the pre-filter
  filtered_out_count, \* rank_candidates local
  scored_candidates,  \* rank_candidates local: <<candidate position, score>> pairs
  ranked,             \* rank_candidates local: the RankedCandidate list
  returned,           \* what the call returned (<<>> until it returns)
  session_status,     \* SearchSession.status of the orchestrator's session
  heap,               \* the objects of the call: which exist, and which object each score and rank is
  m_in,               \* match_location arguments of the running call
  m_pc,               \* position inside match_location
  m_cand,             \* match_location local: candidate_loc_data (0 = None)
  m_i,                \* match_location loop index
  m_best,             \* match_location local: best_match
  m_result,           \* match_location return value
  f_pc,               \* "idle" | "done": a direct call of one scoring function
  f_call,             \* the function called and its arguments
  f_result,           \* what the call returned
  c_job,              \* the job of the score_candidate calls running side by side
  c_cand,             \* call -> the candidate it scores
  c_pc,               \* call -> its position inside score_candidate
  c_fit,              \* engine.tfidf_vectorizer: the call whose texts it was last fitted to (0: none)
  c_out,              \* call -> what the vectorizer gave it (-1: it raised)
  c_result,           \* call -> what score_candidate returned
  sessions,           \* LinkedInCandidateSystem.sessions: session id -> SearchSession
  p_pc,               \* position inside process_job_description
  p_args,             \* its arguments job_text and company_name
  p_session_id,       \* its local session_id
  p_exception,        \* the exception in flight or raised ("": none)
  p_out,              \* the session id it returned (0: none)
  uuids               \* the number of uuid4 values drawn so far

vars == <<weights, engine, supplied, job, candidates, pc, idx, filtered_candidates,
          filtered_out_count, scored_candidates, ranked, returned, session_status, heap,
          m_in, m_pc, m_cand, m_i, m_best, m_result, f_pc, f_call, f_result,
          c_job, c_cand, c_pc, c_fit, c_out, c_result,
          sessions, p_pc, p_args, p_session_id, p_exception, p_out, uuids>>

rankVars == <<weights, engine, supplied, job, candidates, pc, idx, filtered_candidates,
              filtered_out_count, scored_candidates, ranked, returned, session_status, heap>>

matchVars == <<m_in, m_pc, m_cand, m_i, m_best, m_result>>

callVars == <<f_pc, f_call, f_result>>

concVars == <<c_job, c_cand, c_pc, c_fit, c_out, c_result>>

sessVars == <<sessions, p_pc, p_args, p_session_id, p_exception, p_out, uuids>>

(***************************************************************************)
(* Python float arithmetic: IEEE 754 binary64 with round-half-even.  A     *)
(* float is <<sign, mantissa, exponent>> with value sign * mantissa *      *)
(* 2^exponent, sign in {-1, 0, 1}; the mantissa is a natural number of at  *)
(* most 53 bits, odd (so that equal values are equal tuples), held as its  *)
(* digits in base 2^15, least significant first; zero is <<0, <<>>, 0>>.   *)
(* Infinities, NaN, subnormal numbers and the sign of zero do not occur in  *)
(* the values the program computes.                                         *)
(***************************************************************************)
\* the bits of one digit, and of a float's mantissa (sys.float_info.mant_dig)
LimbBits == 15
MantissaBits == 53

Pow2(n) == 2^n

Base == Pow2(LimbBits)

RECURSIVE BitsOf(_)
BitsOf(n) == IF n = 0 THEN 0 ELSE 1 + BitsOf(n \div 2)

\* natural numbers in base 2^15, without leading zero digits
RECURSIVE BNorm(_)
BNorm(x) == IF Len(x) > 0 /\ x[Len(x)] = 0 THEN BNorm(SubSeq(x, 1, Len(x) - 1)) ELSE x

RECURSIVE BFromInt(_)
BFromInt(n) == IF n = 0 THEN <<>> ELSE <<n % Base>> \o BFromInt(n \div Base)

RECURSIVE BToInt(_)
BToInt(x) == IF Len(x) = 0 THEN 0 ELSE x[1] + Base * BToInt(Tail(x))

BDigit(x, i) == IF i <= Len(x) THEN x[i] ELSE 0

RECURSIVE BAddFrom(_, _, _, _)
BAddFrom(a, b, i, carry) ==
  IF i > Len(a) /\ i > Len(b) THEN (IF carry = 0 THEN <<>> ELSE <<carry>>)
  ELSE LET s == BDigit(a, i) + BDigit(b, i) + carry
       IN  <<s % Base>> \o BAddFrom(a, b, i + 1, s \div Base)

BAdd(a, b) == BAddFrom(a, b, 1, 0)

\* a - b for a >= b
RECURSIVE BSubFrom(_, _, _, _)
BSubFrom(a, b, i, borrow) ==
  IF i > Len(a) THEN <<>>
  ELSE LET d == a[i] - BDigit(b, i) - borrow
       IN  <<IF d < 0 THEN d + Base ELSE d>> \o BSubFrom(a, b, i + 1, IF d < 0 THEN 1 ELSE 0)

BSub(a, b) == BNorm(BSubFrom(a, b, 1, 0))

\* -1, 0, 1 as a < b, a = b, a > b
RECURSIVE BCmpFrom(_, _, _)
BCmpFrom(a, b, i) ==
  IF i = 0 THEN 0
  ELSE IF a[i] < b[i] THEN -1
  ELSE IF a[i] > b[i] THEN 1
  ELSE BCmpFrom(a, b, i - 1)

BCmp(a, b) ==
  IF Len(a) < Len(b) THEN -1
  ELSE IF Len(a) > Len(b) THEN 1
  ELSE BCmpFrom(a, b, Len(a))

\* a * k for a digit k
RECURSIVE BMulDigitFrom(_, _, _, _)
BMulDigitFrom(a, k, i, carry) ==
  IF i > Len(a) THEN (IF carry = 0 THEN <<>> ELSE <<carry>>)
  ELSE LET p == a[i] * k + carry
       IN  <<p % Base>> \o BMulDigitFrom(a, k, i + 1, p \div Base)

BMulDigit(a, k) == IF k = 0 THEN <<>> ELSE BMulDigitFrom(a, k, 1, 0)

\* a * 2^15
BShlDigit(a) == IF a = <<>> THEN <<>> ELSE <<0>> \o a

RECURSIVE BMulFrom(_, _, _)
BMulFrom(a, b, j) ==
  IF j > Len(b) THEN <<>>
  ELSE BAdd(BMulDigit(a, b[j]), BShlDigit(BMulFrom(a, b, j + 1)))

BMul(a, b) == BMulFrom(a, b, 1)

\* a * 2^n
BShl(a, n) ==
  IF a = <<>> \/ n = 0 THEN a
  ELSE [i \in 1..(n \div LimbBits) |-> 0] \o BMulDigit(a, Pow2(n % LimbBits))

\* <<a div k, a mod k>> for a digit k > 0: long division from the top digit,
\* with the quotient digits found so far in q
RECURSIVE BDivDigitFrom(_, _, _, _, _)
BDivDigitFrom(a, k, i, rem, q) ==
  IF i = 0 THEN <<BNorm(q), rem>>
  ELSE BDivDigitFrom(a, k, i - 1, (rem * Base + a[i]) % k, <<(rem * Base + a[i]) \div k>> \o q)

BDivDigit(a, k) == BDivDigitFrom(a, k, Len(a), 0, <<>>)

\* a div 2^n
BShr(a, n) ==
  IF n = 0 THEN a
  ELSE IF n \div LimbBits >= Len(a) THEN <<>>
  ELSE BDivDigit(SubSeq(a, n \div LimbBits + 1, Len(a)), Pow2(n % LimbBits))[1]

\* a mod 2^n
BLow(a, n) ==
  BNorm([i \in 1..(IF n \div LimbBits + 1 <= Len(a) THEN n \div LimbBits + 1 ELSE Len(a)) |->
           IF i <= n \div LimbBits THEN a[i] ELSE a[i] % Pow2(n % LimbBits)])

BBitLen(a) == IF a = <<>> THEN 0 ELSE LimbBits * (Len(a) - 1) + BitsOf(a[Len(a)])

BIsOdd(a) == a # <<>> /\ a[1] % 2 = 1

\* the number of trailing zero bits of a > 0
RECURSIVE TrailingZeros(_)
TrailingZeros(n) == IF n % 2 = 1 THEN 0 ELSE 1 + TrailingZeros(n \div 2)

RECURSIVE BTrailingZeros(_, _)
BTrailingZeros(a, i) ==
  IF a[i] = 0 THEN LimbBits + BTrailingZeros(a, i + 1) ELSE TrailingZeros(a[i])

\* the largest digit d with b * d <= r, by bisection of lo..hi
RECURSIVE BQuotDigit(_, _, _, _)
BQuotDigit(r, b, lo, hi) ==
  IF lo = hi THEN lo
  ELSE IF BCmp(BMulDigit(b, (lo + hi + 1) \div 2), r) <= 0
       THEN BQuotDigit(r, b, (lo + hi + 1) \div 2, hi)
       ELSE BQuotDigit(r, b, lo, (lo + hi + 1) \div 2 - 1)

\* <<a div b, a mod b>> for b > 0: long division from the top digit of a,
\* with the quotient digits found so far in q; cur is the running remainder
\* with the next digit of a brought down, d the quotient digit for it
RECURSIVE BDivFrom(_, _, _, _, _)
BDivNext(a, b, i, cur, d, q) == BDivFrom(a, b, i - 1, BSub(cur, BMulDigit(b, d)), <<d>> \o q)
BDivDown(a, b, i, cur, q) == BDivNext(a, b, i, cur, BQuotDigit(cur, b, 0, Base - 1), q)
BDivFrom(a, b, i, rem, q) ==
  IF i = 0 THEN <<BNorm(q), rem>>
  ELSE BDivDown(a, b, i, BNorm(<<a[i]>> \o rem), q)

BDigitRemainder(qr) == <<qr[1], BFromInt(qr[2])>>

BDivMod(a, b) ==
  IF Len(b) = 1 THEN BDigitRemainder(BDivDigit(a, b[1]))
  ELSE BDivFrom(a, b, Len(a), <<>>, <<>>)

Zero == <<0, <<>>, 0>>

\* the float sign * m * 2^e for an odd or even m of at most 53 bits
CanonicalBy(sign, m, e, t) == <<sign, BShr(m, t), e + t>>

Canonical(sign, m, e) ==
  IF m = <<>> THEN Zero
  ELSE IF m[1] % 2 = 1 THEN <<sign, m, e>>
  ELSE CanonicalBy(sign, m, e, BTrailingZeros(m, 1))

\* The float nearest to sign * (m + f) * 2^e, where 0 <= f < 1 and inexact
\* says that f > 0: round half to even.
\* kept is the mantissa cut to 53 bits; half is -1, 0, 1 as the bits cut off
\* are below, at or above one half of its last place
RoundKept(kept, half, inexact) ==
  IF half > 0 \/ (half = 0 /\ (inexact \/ BIsOdd(kept))) THEN BAdd(kept, <<1>>) ELSE kept

RoundBy(sign, m, e, inexact, excess) ==
  Canonical(sign,
            IF excess <= 0 THEN m
            ELSE RoundKept(BShr(m, excess), BCmp(BLow(m, excess), BShl(<<1>>, excess - 1)), inexact),
            IF excess <= 0 THEN e ELSE e + excess)

Round(sign, m, e, inexact) == RoundBy(sign, m, e, inexact, BBitLen(m) - MantissaBits)

\* float(n) for an int n
R(n) == IF n = 0 THEN Zero ELSE Canonical(IF n < 0 THEN -1 ELSE 1, BFromInt(IF n < 0 THEN -n ELSE n), 0)

RNeg(a) == <<0 - a[1], a[2], a[3]>>

\* sa * ma * 2^e + sb * mb * 2^e for sa and sb not 0; order is -1, 0, 1 as
\* ma < mb, ma = mb, ma > mb
RAddOrdered(sa, ma, sb, mb, e, order) ==
  Round(IF sa = sb \/ order >= 0 THEN sa ELSE sb,
        IF sa = sb THEN BAdd(ma, mb) ELSE IF order >= 0 THEN BSub(ma, mb) ELSE BSub(mb, ma),
        e, FALSE)

RAddAligned(sa, ma, sb, mb, e) == RAddOrdered(sa, ma, sb, mb, e, BCmp(ma, mb))

RAddAt(a, b, e) == RAddAligned(a[1], BShl(a[2], a[3] - e), b[1], BShl(b[2], b[3] - e), e)

\* a + b
RAdd(a, b) ==
  IF a[1] = 0 THEN b
  ELSE IF b[1] = 0 THEN a
  ELSE RAddAt(a, b, IF a[3] < b[3] THEN a[3] ELSE b[3])

\* a - b
RSub(a, b) == RAdd(a, RNeg(b))

\* a * b
RMul(a, b) == IF a[1] = 0 \/ b[1] = 0 THEN Zero ELSE Round(a[1] * b[1], BMul(a[2], b[2]), a[3] + b[3], FALSE)

\* a / b for b # 0: the quotient of the mantissas to 55 bits and more, with
\* the remainder deciding whether it is exact
RDivRounded(sign, qr, e) == Round(sign, qr[1], e, qr[2] # <<>>)

RDivBy(a, b, k) == RDivRounded(a[1] * b[1], BDivMod(BShl(a[2], k), b[2]), a[3] - b[3] - k)

RDivShift(a, b, shift) == RDivBy(a, b, IF shift > 0 THEN shift ELSE 0)

RDiv(a, b) ==
  IF a[1] = 0 THEN Zero
  ELSE RDivShift(a, b, MantissaBits + 2 + BBitLen(b[2]) - BBitLen(a[2]))

\* n / d for ints n and d
Rat(n, d) == RDiv(R(n), R(d))

\* -1, 0, 1 as a < b, a = b, a > b
\* for a and b of one sign: ta and tb are the positions of their top bits
RCmpTop(a, b, ta, tb, e) ==
  IF ta # tb THEN (IF ta < tb THEN -a[1] ELSE a[1])
  ELSE a[1] * BCmp(BShl(a[2], a[3] - e), BShl(b[2], b[3] - e))

RCmp(a, b) ==
  IF a[1] # b[1] THEN (IF a[1] < b[1] THEN -1 ELSE 1)
  ELSE IF a[1] = 0 THEN 0
  ELSE RCmpTop(a, b, a[3] + BBitLen(a[2]), b[3] + BBitLen(b[2]), IF a[3] < b[3] THEN a[3] ELSE b[3])

RLeq(a, b) == RCmp(a, b) <= 0
RLt(a, b) == RCmp(a, b) < 0
RMin(a, b) == IF RLeq(a, b) THEN a ELSE b
RMax(a, b) == IF RLeq(b, a) THEN a ELSE b

\* int(a): truncation toward zero
RInt(a) ==
  IF a[1] = 0 THEN 0
  ELSE a[1] * BToInt(IF a[3] >= 0 THEN BShl(a[2], a[3]) ELSE BShr(a[2], 0 - a[3]))

(***************************************************************************)
(* Python string operations.                                               *)
(***************************************************************************)
\* Python: a in b
IsSubstr(a, b) ==
  \E i \in 1..(Len(b) - Len(a) + 1) : SubSeq(b, i, i + Len(a) - 1) = a

\* str.lower() and str.upper(), letter by letter.  A string of the model holds
\* the characters U+0000 to U+00FF; ToLower has every one of them that
\* str.lower() changes.
ToLower ==
  "A" :> "a" @@ "B" :> "b" @@ "C" :> "c" @@ "D" :> "d" @@ "E" :> "e" @@ "F" :> "f" @@ "G" :> "g" @@
  "H" :> "h" @@ "I" :> "i" @@ "J" :> "j" @@ "K" :> "k" @@ "L" :> "l" @@ "M" :> "m" @@ "N" :> "n" @@
  "O" :> "o" @@ "P" :> "p" @@ "Q" :> "q" @@ "R" :> "r" @@ "S" :> "s" @@ "T" :> "t" @@ "U" :> "u" @@
  "V" :> "v" @@ "W" :> "w" @@ "X" :> "x" @@ "Y" :> "y" @@ "Z" :> "z" @@
  "À" :> "à" @@ "Á" :> "á" @@ "Â" :> "â" @@ "Ã" :> "ã" @@ "Ä" :> "ä" @@ "Å" :> "å" @@ "Æ" :> "æ" @@
  "Ç" :> "ç" @@ "È" :> "è" @@ "É" :> "é" @@ "Ê" :> "ê" @@ "Ë" :> "ë" @@ "Ì" :> "ì" @@ "Í" :> "í" @@
  "Î" :> "î" @@ "Ï" :> "ï" @@ "Ð" :> "ð" @@ "Ñ" :> "ñ" @@ "Ò" :> "ò" @@ "Ó" :> "ó" @@ "Ô" :> "ô" @@
  "Õ" :> "õ" @@ "Ö" :> "ö" @@ "Ø" :> "ø" @@ "Ù" :> "ù" @@ "Ú" :> "ú" @@ "Û" :> "û" @@ "Ü" :> "ü" @@
  "Ý" :> "ý" @@ "Þ" :> "þ"

\* the upper-case letter of each ASCII lower-case letter
ToUpper ==
  "a" :> "A" @@ "b" :> "B" @@ "c" :> "C" @@ "d" :> "D" @@ "e" :> "E" @@ "f" :> "F" @@ "g" :> "G" @@
  "h" :> "H" @@ "i" :> "I" @@ "j" :> "J" @@ "k" :> "K" @@ "l" :> "L" @@ "m" :> "M" @@ "n" :> "N" @@
  "o" :> "O" @@ "p" :> "P" @@ "q" :> "Q" @@ "r" :> "R" @@ "s" :> "S" @@ "t" :> "T" @@ "u" :> "U" @@
  "v" :> "V" @@ "w" :> "W" @@ "x" :> "X" @@ "y" :> "Y" @@ "z" :> "Z"

LowerChar(c) == IF c \in DOMAIN ToLower THEN ToLower[c] ELSE c

\* Python: s.lower()
RECURSIVE Lower(_)
Lower(s) ==
  IF Len(s) = 0 THEN ""
  ELSE IF Len(s) = 1 THEN LowerChar(s)
  ELSE Lower(SubSeq(s, 1, Len(s) \div 2)) \o Lower(SubSeq(s, Len(s) \div 2 + 1, Len(s)))

\* str.isspace() of one character: tab, line feed, vertical tab (U+000B), form
\* feed, carriage return, the separators U+001C to U+001F, space, next line
\* (U+0085) and no-break space (U+00A0)
IsSpace(c) == c \in {" ", "\t", "\n", "\r", "\f", "", "", "", "", "", "", " "}

\* Python: s.strip()
RECURSIVE Strip(_)
Strip(s) ==
  IF Len(s) = 0 THEN ""
  ELSE IF IsSpace(SubSeq(s, 1, 1)) THEN Strip(SubSeq(s, 2, Len(s)))
  ELSE IF IsSpace(SubSeq(s, Len(s), Len(s))) THEN Strip(SubSeq(s, 1, Len(s) - 1))
  ELSE s

(***************************************************************************)
(* location_service.py: the gazetteer.  One record per tuple of us_cities  *)
(* + international_cities, in source order; aliases are the result of      *)
(* _generate_aliases for that city.                                        *)
(***************************************************************************)
us_and_international_cities ==
  <<
    [city |-> "San Francisco", state |-> "CA", country |-> "USA", metro_area |-> "San Francisco Bay Area", aliases |-> <<"SF", "San Fran", "The City">>],
    [city |-> "Los Angeles", state |-> "CA", country |-> "USA", metro_area |-> "Los Angeles Metro", aliases |-> <<"LA", "Los Angeles">>],
    [city |-> "San Diego", state |-> "CA", country |-> "USA", metro_area |-> "San Diego Metro", aliases |-> <<>>],
    [city |-> "Seattle", state |-> "WA", country |-> "USA", metro_area |-> "Seattle Metro", aliases |-> <<>>],
    [city |-> "Portland", state |-> "OR", country |-> "USA", metro_area |-> "Portland Metro", aliases |-> <<>>],
    [city |-> "San Jose", state |-> "CA", country |-> "USA", metro_area |-> "San Francisco Bay Area", aliases |-> <<>>],
    [city |-> "New York", state |-> "NY", country |-> "USA", metro_area |-> "New York Metro", aliases |-> <<"NYC", "New York City", "Manhattan">>],
    [city |-> "Boston", state |-> "MA", country |-> "USA", metro_area |-> "Boston Metro", aliases |-> <<>>],
    [city |-> "Washington", state |-> "DC", country |-> "USA", metro_area |-> "Washington DC Metro", aliases |-> <<"DC", "Washington DC", "Washington D.C.">>],
    [city |-> "Philadelphia", state |-> "PA", country |-> "USA", metro_area |-> "Philadelphia Metro", aliases |-> <<>>],
    [city |-> "Miami", state |-> "FL", country |-> "USA", metro_area |-> "Miami Metro", aliases |-> <<>>],
    [city |-> "Atlanta", state |-> "GA", country |-> "USA", metro_area |-> "Atlanta Metro", aliases |-> <<>>],
    [city |-> "Chicago", state |-> "IL", country |-> "USA", metro_area |-> "Chicago Metro", aliases |-> <<>>],
    [city |-> "Dallas", state |-> "TX", country |-> "USA", metro_area |-> "Dallas-Fort Worth Metro", aliases |-> <<>>],
    [city |-> "Houston", state |-> "TX", country |-> "USA", metro_area |-> "Houston Metro", aliases |-> <<>>],
    [city |-> "Austin", state |-> "TX", country |-> "USA", metro_area |-> "Austin Metro", aliases |-> <<>>],
    [city |-> "Denver", state |-> "CO", country |-> "USA", metro_area |-> "Denver Metro", aliases |-> <<>>],
    [city |-> "Phoenix", state |-> "AZ", country |-> "USA", metro_area |-> "Phoenix Metro", aliases |-> <<>>],
    [city |-> "Las Vegas", state |-> "NV", country |-> "USA", metro_area |-> "Las Vegas Metro", aliases |-> <<"Vegas">>],
    [city |-> "Salt Lake City", state |-> "UT", country |-> "USA", metro_area |-> "Salt Lake City Metro", aliases |-> <<"SLC">>],
    [city |-> "Nashville", state |-> "TN", country |-> "USA", metro_area |-> "Nashville Metro", aliases |-> <<>>],
    [city |-> "Orlando", state |-> "FL", country |-> "USA", metro_area |-> "Orlando Metro", aliases |-> <<>>],
    [city |-> "Tampa", state |-> "FL", country |-> "USA", metro_area |-> "Tampa Bay Metro", aliases |-> <<>>],
    [city |-> "Charlotte", state |-> "NC", country |-> "USA", metro_area |-> "Charlotte Metro", aliases |-> <<>>],
    [city |-> "Raleigh", state |-> "NC", country |-> "USA", metro_area |-> "Raleigh-Durham Metro", aliases |-> <<>>],
    [city |-> "Richmond", state |-> "VA", country |-> "USA", metro_area |-> "Richmond Metro", aliases |-> <<>>],
    [city |-> "Baltimore", state |-> "MD", country |-> "USA", metro_area |-> "Baltimore Metro", aliases |-> <<>>],
    [city |-> "Pittsburgh", state |-> "PA", country |-> "USA", metro_area |-> "Pittsburgh Metro", aliases |-> <<>>],
    [city |-> "Cleveland", state |-> "OH", country |-> "USA", metro_area |-> "Cleveland Metro", aliases |-> <<>>],
    [city |-> "Detroit", state |-> "MI", country |-> "USA", metro_area |-> "Detroit Metro", aliases |-> <<>>],
    [city |-> "Columbus", state |-> "OH", country |-> "USA", metro_area |-> "Columbus Metro", aliases |-> <<>>],
    [city |-> "Indianapolis", state |-> "IN", country |-> "USA", metro_area |-> "Indianapolis Metro", aliases |-> <<>>],
    [city |-> "Milwaukee", state |-> "WI", country |-> "USA", metro_area |-> "Milwaukee Metro", aliases |-> <<>>],
    [city |-> "Minneapolis", state |-> "MN", country |-> "USA", metro_area |-> "Minneapolis-St. Paul Metro", aliases |-> <<>>],
    [city |-> "Kansas City", state |-> "MO", country |-> "USA", metro_area |-> "Kansas City Metro", aliases |-> <<"KC">>],
    [city |-> "St. Louis", state |-> "MO", country |-> "USA", metro_area |-> "St. Louis Metro", aliases |-> <<"Saint Louis">>],
    [city |-> "New Orleans", state |-> "LA", country |-> "USA", metro_area |-> "New Orleans Metro", aliases |-> <<"NOLA">>],
    [city |-> "San Antonio", state |-> "TX", country |-> "USA", metro_area |-> "San Antonio Metro", aliases |-> <<"SA">>],
    [city |-> "Oklahoma City", state |-> "OK", country |-> "USA", metro_area |-> "Oklahoma City Metro", aliases |-> <<"OKC">>],
    [city |-> "Tulsa", state |-> "OK", country |-> "USA", metro_area |-> "Tulsa Metro", aliases |-> <<>>],
    [city |-> "Little Rock", state |-> "AR", country |-> "USA", metro_area |-> "Little Rock Metro", aliases |-> <<>>],
    [city |-> "Memphis", state |-> "TN", country |-> "USA", metro_area |-> "Memphis Metro", aliases |-> <<>>],
    [city |-> "Birmingham", state |-> "AL", country |-> "USA", metro_area |-> "Birmingham Metro", aliases |-> <<>>],
    [city |-> "Jacksonville", state |-> "FL", country |-> "USA", metro_area |-> "Jacksonville Metro", aliases |-> <<>>],
    [city |-> "Buffalo", state |-> "NY", country |-> "USA", metro_area |-> "Buffalo Metro", aliases |-> <<>>],
    [city |-> "Rochester", state |-> "NY", country |-> "USA", metro_area |-> "Rochester Metro", aliases |-> <<>>],
    [city |-> "Albany", state |-> "NY", country |-> "USA", metro_area |-> "Albany Metro", aliases |-> <<>>],
    [city |-> "Providence", state |-> "RI", country |-> "USA", metro_area |-> "Providence Metro", aliases |-> <<>>],
    [city |-> "Hartford", state |-> "CT", country |-> "USA", metro_area |-> "Hartford Metro", aliases |-> <<>>],
    [city |-> "Bridgeport", state |-> "CT", country |-> "USA", metro_area |-> "Bridgeport Metro", aliases |-> <<>>],
    [city |-> "Toronto", state |-> "ON", country |-> "Canada", metro_area |-> "Greater Toronto Area", aliases |-> <<>>],
    [city |-> "Vancouver", state |-> "BC", country |-> "Canada", metro_area |-> "Metro Vancouver", aliases |-> <<>>],
    [city |-> "Montreal", state |-> "QC", country |-> "Canada", metro_area |-> "Montreal Metro", aliases |-> <<>>],
    [city |-> "London", state |-> "", country |-> "United Kingdom", metro_area |-> "Greater London", aliases |-> <<>>],
    [city |-> "Berlin", state |-> "", country |-> "Germany", metro_area |-> "Berlin Metro", aliases |-> <<>>],
    [city |-> "Paris", state |-> "", country |-> "France", metro_area |-> "Île-de-France", aliases |-> <<>>],
    [city |-> "Amsterdam", state |-> "", country |-> "Netherlands", metro_area |-> "Amsterdam Metro", aliases |-> <<>>],
    [city |-> "Dublin", state |-> "", country |-> "Ireland", metro_area |-> "Dublin Metro", aliases |-> <<>>],
    [city |-> "Sydney", state |-> "NSW", country |-> "Australia", metro_area |-> "Greater Sydney", aliases |-> <<>>],
    [city |-> "Melbourne", state |-> "VIC", country |-> "Australia", metro_area |-> "Greater Melbourne", aliases |-> <<>>],
    [city |-> "Tel Aviv", state |-> "", country |-> "Israel", metro_area |-> "Tel Aviv Metro", aliases |-> <<>>],
    [city |-> "Tokyo", state |-> "", country |-> "Japan", metro_area |-> "Greater Tokyo", aliases |-> <<>>],
    [city |-> "Singapore", state |-> "", country |-> "Singapore", metro_area |-> "Singapore", aliases |-> <<>>],
    [city |-> "Hong Kong", state |-> "", country |-> "Hong Kong", metro_area |-> "Hong Kong", aliases |-> <<>>],
    [city |-> "Bangalore", state |-> "KA", country |-> "India", metro_area |-> "Bangalore Metro", aliases |-> <<>>],
    [city |-> "Mumbai", state |-> "MH", country |-> "India", metro_area |-> "Mumbai Metro", aliases |-> <<>>],
    [city |-> "Hyderabad", state |-> "TG", country |-> "India", metro_area |-> "Hyderabad Metro", aliases |-> <<>>],
    [city |-> "Pune", state |-> "MH", country |-> "India", metro_area |-> "Pune Metro", aliases |-> <<>>],
    [city |-> "Chennai", state |-> "TN", country |-> "India", metro_area |-> "Chennai Metro", aliases |-> <<>>]
  >>

NumCities == Len(us_and_international_cities)

\* One key of self.locations, for city number n with record c: city.lower()
\* for odd k, "city, state".lower() for even k (the third assignment in the
\* source rewrites the second key).
LocationKey(k, n, c) ==
  IF k % 2 = 1
  THEN <<Lower(c.city), n>>
  ELSE <<Lower(c.city) \o ", " \o Lower(c.state), n>>

\* self.locations: the dict as its insertion-ordered list of <<key, city index>>.
locations ==
  [k \in 1..(2 * NumCities) |->
     LocationKey(k, (k + 1) \div 2, us_and_international_cities[(k + 1) \div 2])]

\* the first index of a set of list positions that is not empty
FirstIndex(S) == CHOOSE k \in S : \A j \in S : k <= j

\* Lines 287-306: the direct, partial and alias lookups of the cleaned text t
\* in the keys locs of the gazetteer cities.
LookupLocation(t, locs, cities) ==
  LET n == Len(locs)
      Direct(k)  == locs[k][1] = t
      Partial(k) == IsSubstr(t, locs[k][1]) \/ IsSubstr(locs[k][1], t)
      Alias(k)   == \E a \in 1..Len(cities[locs[k][2]].aliases) :
                       IsSubstr(Lower(cities[locs[k][2]].aliases[a]), t)
  IN  IF \E k \in 1..n : Direct(k) THEN locs[FirstIndex({k \in 1..n : Direct(k)})][2]
      ELSE IF \E k \in 1..n : Partial(k) THEN locs[FirstIndex({k \in 1..n : Partial(k)})][2]
      ELSE IF \E k \in 1..n : Alias(k) THEN locs[FirstIndex({k \in 1..n : Alias(k)})][2]
      ELSE 0

\* LocationService.parse_location: the index of the LocationData found, 0 for None.
parse_location(location_text) ==
  IF location_text = "" THEN 0
  ELSE LookupLocation(Lower(Strip(location_text)), locations, us_and_international_cities)

\* Location strings candidates carry and job requirements list.
CandidateLocations ==
  {"San Francisco, CA", "San Jose, CA", "Los Angeles", "Seattle, WA", "Toronto",
   "Remote", "WFH - Seattle", "Mars", "   ", ""}

RequiredEntries ==
  {"San Francisco", "San Jose, CA", "CA", "Seattle", "USA", "remote", "Texas"}

LocationTexts == CandidateLocations \cup RequiredEntries \cup {Strip(t) : t \in CandidateLocations}

\* parse_location over the strings in use, evaluated once.
ParsedLocations == [t \in LocationTexts |-> parse_location(t)]

\* LocationService.calculate_distance: the haversine distance (Earth radius
\* 3956 miles) between the coordinates of two gazetteer cities: the binary64
\* number that lines 322-334 return, for the cities the strings in use
\* resolve to.
DistanceTable ==
  <<"San Francisco", "San Francisco">> :> <<0, <<>>, 0>>  \* 0.0
  @@ <<"San Francisco", "San Jose">> :> <<1, <<23655, 22266, 27433, 167>>, -47>>  \* 41.95930236455097
  @@ <<"San Francisco", "Los Angeles">> :> <<1, <<31871, 32051, 19325, 173>>, -44>>  \* 347.1795640959826
  @@ <<"San Francisco", "Seattle">> :> <<1, <<8335, 13765, 23090, 169>>, -43>>  \* 678.8186547951935
  @@ <<"San Francisco", "Toronto">> :> <<1, <<20365, 11591, 13432, 141>>, -41>>  \* 2262.5587664786203
  @@ <<"San Francisco", "London">> :> <<1, <<26611, 4721, 6425, 167>>, -40>>  \* 5350.274554783467
  @@ <<"San Francisco", "San Antonio">> :> <<1, <<7985, 25377, 26224, 185>>, -42>>  \* 1486.4025328251994
  @@ <<"San Jose", "San Francisco">> :> <<1, <<23655, 22266, 27433, 167>>, -47>>  \* 41.95930236455097
  @@ <<"San Jose", "San Jose">> :> <<0, <<>>, 0>>  \* 0.0
  @@ <<"San Jose", "Los Angeles">> :> <<1, <<26109, 21041, 20055, 152>>, -44>>  \* 305.22409925199446
  @@ <<"San Jose", "Seattle">> :> <<1, <<29249, 31584, 10887, 44>>, -41>>  \* 709.316388620326
  @@ <<"San Jose", "Toronto">> :> <<1, <<4729, 2757, 17372, 140>>, -41>>  \* 2248.482462959652
  @@ <<"San Jose", "London">> :> <<1, <<913, 1935, 24513, 83>>, -39>>  \* 5359.877068461648
  @@ <<"San Jose", "San Antonio">> :> <<1, <<28835, 7839, 9144, 181>>, -42>>  \* 1450.2324802866576
  @@ <<"Los Angeles", "San Francisco">> :> <<1, <<31871, 32051, 19325, 173>>, -44>>  \* 347.1795640959826
  @@ <<"Los Angeles", "San Jose">> :> <<1, <<26109, 21041, 20055, 152>>, -44>>  \* 305.22409925199446
  @@ <<"Los Angeles", "Los Angeles">> :> <<0, <<>>, 0>>  \* 0.0
  @@ <<"Los Angeles", "Seattle">> :> <<1, <<24855, 15233, 28999, 239>>, -43>>  \* 959.5399737423603
  @@ <<"Los Angeles", "Toronto">> :> <<1, <<31629, 27602, 20060, 135>>, -41>>  \* 2169.7953331912345
  @@ <<"Los Angeles", "London">> :> <<1, <<3921, 10072, 29380, 169>>, -40>>  \* 5436.691706422557
  @@ <<"Los Angeles", "San Antonio">> :> <<1, <<32111, 6473, 1536, 75>>, -41>>  \* 1200.7500964698188
  @@ <<"Seattle", "San Francisco">> :> <<1, <<8335, 13765, 23090, 169>>, -43>>  \* 678.8186547951935
  @@ <<"Seattle", "San Jose">> :> <<1, <<29249, 31584, 10887, 44>>, -41>>  \* 709.316388620326
  @@ <<"Seattle", "Los Angeles">> :> <<1, <<24855, 15233, 28999, 239>>, -43>>  \* 959.5399737423603
  @@ <<"Seattle", "Seattle">> :> <<0, <<>>, 0>>  \* 0.0
  @@ <<"Seattle", "Toronto">> :> <<1, <<10625, 21622, 8547, 32>>, -39>>  \* 2064.694648165956
  @@ <<"Seattle", "London">> :> <<1, <<1391, 17789, 13265, 149>>, -40>>  \* 4780.954631717278
  @@ <<"Seattle", "San Antonio">> :> <<1, <<2157, 12342, 2186, 223>>, -42>>  \* 1784.5337833618062
  @@ <<"Toronto", "San Francisco">> :> <<1, <<20365, 11591, 13432, 141>>, -41>>  \* 2262.5587664786203
  @@ <<"Toronto", "San Jose">> :> <<1, <<4729, 2757, 17372, 140>>, -41>>  \* 2248.482462959652
  @@ <<"Toronto", "Los Angeles">> :> <<1, <<31629, 27602, 20060, 135>>, -41>>  \* 2169.7953331912345
  @@ <<"Toronto", "Seattle">> :> <<1, <<10625, 21622, 8547, 32>>, -39>>  \* 2064.694648165956
  @@ <<"Toronto", "Toronto">> :> <<0, <<>>, 0>>  \* 0.0
  @@ <<"Toronto", "London">> :> <<1, <<11901, 20327, 22731, 221>>, -41>>  \* 3547.0994239950655
  @@ <<"Toronto", "San Antonio">> :> <<1, <<6849, 10773, 27707, 179>>, -42>>  \* 1438.764484563537
  @@ <<"London", "San Francisco">> :> <<1, <<26611, 4721, 6425, 167>>, -40>>  \* 5350.274554783467
  @@ <<"London", "San Jose">> :> <<1, <<913, 1935, 24513, 83>>, -39>>  \* 5359.877068461648
  @@ <<"London", "Los Angeles">> :> <<1, <<3921, 10072, 29380, 169>>, -40>>  \* 5436.691706422557
  @@ <<"London", "Seattle">> :> <<1, <<1391, 17789, 13265, 149>>, -40>>  \* 4780.954631717278
  @@ <<"London", "Toronto">> :> <<1, <<11901, 20327, 22731, 221>>, -41>>  \* 3547.0994239950655
  @@ <<"London", "London">> :> <<0, <<>>, 0>>  \* 0.0
  @@ <<"London", "San Antonio">> :> <<1, <<30607, 7619, 29343, 77>>, -39>>  \* 4985.311001058462
  @@ <<"San Antonio", "San Francisco">> :> <<1, <<7985, 25377, 26224, 185>>, -42>>  \* 1486.4025328251994
  @@ <<"San Antonio", "San Jose">> :> <<1, <<28835, 7839, 9144, 181>>, -42>>  \* 1450.2324802866576
  @@ <<"San Antonio", "Los Angeles">> :> <<1, <<32111, 6473, 1536, 75>>, -41>>  \* 1200.7500964698188
  @@ <<"San Antonio", "Seattle">> :> <<1, <<2157, 12342, 2186, 223>>, -42>>  \* 1784.5337833618062
  @@ <<"San Antonio", "Toronto">> :> <<1, <<6849, 10773, 27707, 179>>, -42>>  \* 1438.764484563537
  @@ <<"San Antonio", "London">> :> <<1, <<30607, 7619, 29343, 77>>, -39>>  \* 4985.311001058462
  @@ <<"San Antonio", "San Antonio">> :> <<0, <<>>, 0>>  \* 0.0

\* position of a city in the gazetteer
GazetteerIndex(city) == FirstIndex({k \in 1..NumCities : us_and_international_cities[k].city = city})

\* a variant whose result carries the direction of travel: negative from a
\* later gazetteer entry to an earlier one
calculate_distance_Directed(loc1, loc2) ==
  IF GazetteerIndex(loc1.city) > GazetteerIndex(loc2.city)
  THEN RNeg(DistanceTable[<<loc1.city, loc2.city>>])
  ELSE DistanceTable[<<loc1.city, loc2.city>>]

calculate_distance(loc1, loc2) == DistanceTable[<<loc1.city, loc2.city>>]

\* None where a float may stand
NoneRat == <<0, <<>>, -1>>

LocationMatch(match_type, confidence, distance_miles, matched_location) ==
  [match_type |-> match_type, confidence |-> confidence,
   distance_miles |-> distance_miles, matched_location |-> matched_location]

remote_keywords == <<"remote", "work from home", "wfh", "distributed", "anywhere", "global">>

(***************************************************************************)
(* LocationService.match_location.  Its arguments are a record             *)
(*   [cand, reqs, remote_allowed, hybrid_allowed, max_distance_miles]      *)
(* with max_distance_miles = 0 standing for None (both are falsy).         *)
(***************************************************************************)
HasRemoteKeyword(text) ==
  \E k \in 1..Len(remote_keywords) : IsSubstr(remote_keywords[k], Lower(text))

\* A variant that resolves the candidate before looking for remote keywords.
PrologueChecks_ParseFirst(a, cleaned, parsed) ==
  IF parsed # 0
  THEN [done |-> FALSE, cand |-> parsed,
        result |-> LocationMatch("no_match", R(0), NoneRat, 0)]
  ELSE IF HasRemoteKeyword(cleaned)
  THEN [done |-> TRUE, cand |-> 0,
        result |-> IF a.remote_allowed
                   THEN LocationMatch("remote", R(100), NoneRat, 0)
                   ELSE LocationMatch("no_match", R(20), NoneRat, 0)]
  ELSE [done |-> TRUE, cand |-> 0,
        result |-> LocationMatch("no_match", R(10), NoneRat, 0)]

\* Lines 360-385 for the stripped candidate text cleaned, which parse_location
\* resolves to parsed: the remote keywords, then the unresolved candidate.
PrologueChecks(a, cleaned, parsed) ==
  IF HasRemoteKeyword(cleaned)
  THEN [done |-> TRUE, cand |-> 0,
        result |-> IF a.remote_allowed
                   THEN LocationMatch("remote", R(100), NoneRat, 0)
                   ELSE LocationMatch("no_match", R(20), NoneRat, 0)]
  ELSE IF parsed = 0
  THEN [done |-> TRUE, cand |-> 0,
        result |-> LocationMatch("no_match", R(10), NoneRat, 0)]
  ELSE [done |-> FALSE, cand |-> parsed,
        result |-> LocationMatch("no_match", R(0), NoneRat, 0)]

\* A variant that sends the empty text through the same checks as any other.
MatchPrologue_EmptyAsUnparsed(a) ==
  PrologueChecks(a, Strip(a.cand), ParsedLocations[Strip(a.cand)])

\* Lines 357-385: the checks made before the loop.  done = TRUE with the
\* value returned, or done = FALSE with candidate_loc_data.
MatchPrologue(a) ==
  IF a.cand = ""
  THEN [done |-> TRUE, cand |-> 0,
        result |-> LocationMatch("no_match", R(0), NoneRat, 0)]
  ELSE PrologueChecks(a, Strip(a.cand), ParsedLocations[Strip(a.cand)])

\* A variant that keeps the match of the latest qualifying tier.
Better_LastWins(match, best) == match

Better(match, best) == IF RLt(best.confidence, match.confidence) THEN match ELSE best

\* A variant that tests the state before the metro area.
TierMatch_StateFirst(c, r, ri, hybrid_allowed, best) ==
  IF /\ c.state # "" /\ r.state # ""
     /\ Lower(c.state) = Lower(r.state)
     /\ c.country = "USA" /\ r.country = "USA"
  THEN Better(LocationMatch("state_match", IF hybrid_allowed THEN R(70) ELSE R(50), NoneRat, ri), best)
  ELSE IF c.metro_area # "" /\ r.metro_area # "" /\ c.metro_area = r.metro_area
  THEN Better(LocationMatch("metro_area", R(90), NoneRat, ri), best)
  ELSE IF c.country = r.country
  THEN Better(LocationMatch("country_match", IF hybrid_allowed THEN R(40) ELSE R(30), NoneRat, ri), best)
  ELSE best

\* Lines 408-442: the metro / state / country chain of one loop iteration.
TierMatch(c, r, ri, hybrid_allowed, best) ==
  IF c.metro_area # "" /\ r.metro_area # "" /\ c.metro_area = r.metro_area
  THEN Better(LocationMatch("metro_area", R(90), NoneRat, ri), best)
  ELSE IF /\ c.state # "" /\ r.state # ""
          /\ Lower(c.state) = Lower(r.state)
          /\ c.country = "USA" /\ r.country = "USA"
  THEN Better(LocationMatch("state_match", IF hybrid_allowed THEN R(70) ELSE R(50), NoneRat, ri), best)
  ELSE IF c.country = r.country
  THEN Better(LocationMatch("country_match", IF hybrid_allowed THEN R(40) ELSE R(30), NoneRat, ri), best)
  ELSE best

\* Lines 447-462: the match for a distance already computed.
WithinRadius(distance, ri, max_distance_miles, best) ==
  IF RLeq(distance, R(max_distance_miles))
  THEN Better(LocationMatch("within_radius",
                            RMax(R(60), RSub(R(100), RMul(RDiv(distance, R(max_distance_miles)),
                                                          R(40)))),
                            distance, ri),
              best)
  ELSE best

\* Lines 444-462: distance-based matching of one loop iteration.
RadiusMatch(c, r, ri, max_distance_miles, best) ==
  IF max_distance_miles # 0
  THEN WithinRadius(calculate_distance(c, r), ri, max_distance_miles, best)
  ELSE best

\* Lines 399-462: the candidate's city c against the resolved entry r.
CompareCities(a, c, r, ri, best) ==
  IF Lower(c.city) = Lower(r.city) /\ Lower(c.state) = Lower(r.state)
  THEN [done |-> TRUE, best |-> LocationMatch("exact_city", R(100), NoneRat, ri)]
  ELSE [done |-> FALSE,
        best |-> RadiusMatch(c, r, ri, a.max_distance_miles,
                             TierMatch(c, r, ri, a.hybrid_allowed, best))]

\* A variant that stops the loop at an unresolved entry instead of skipping it.
MatchResolved_BreakOnUnresolved(a, ci, ri, best) ==
  IF ri = 0 THEN [done |-> TRUE, best |-> best]
  ELSE CompareCities(a, us_and_international_cities[ci], us_and_international_cities[ri],
                     ri, best)

\* Lines 394-462: the entry that parse_location resolved to ri; an entry it
\* cannot resolve is skipped.
MatchResolved(a, ci, ri, best) ==
  IF ri = 0 THEN [done |-> FALSE, best |-> best]
  ELSE CompareCities(a, us_and_international_cities[ci], us_and_international_cities[ri],
                     ri, best)

\* Lines 390-462: one iteration of the loop over required_locations.
\* done = TRUE when the iteration returns from match_location.
MatchEntry(a, ci, req_location, best) ==
  IF Lower(req_location) = "remote" /\ a.remote_allowed
  THEN [done |-> TRUE, best |-> LocationMatch("remote", R(100), NoneRat, 0)]
  ELSE MatchResolved(a, ci, ParsedLocations[req_location], best)

RECURSIVE MatchLoop(_, _, _, _)
RECURSIVE MatchNext(_, _, _, _)
\* the loop after iteration i, whose outcome is e
MatchNext(a, ci, i, e) == IF e.done THEN e.best ELSE MatchLoop(a, ci, i + 1, e.best)

\* the loop over required_locations from entry i onward
MatchLoop(a, ci, i, best) ==
  IF i > Len(a.reqs) THEN best
  ELSE MatchNext(a, ci, i, MatchEntry(a, ci, a.reqs[i], best))

\* match_location after the checks before the loop gave p
MatchAfterPrologue(a, p) == IF p.done THEN p.result ELSE MatchLoop(a, p.cand, 1, p.result)

match_location(a) == MatchAfterPrologue(a, MatchPrologue(a))

MatchArgs(cand, reqs, remote_allowed, hybrid_allowed, max_distance_miles) ==
  [cand |-> cand, reqs |-> reqs, remote_allowed |-> remote_allowed,
   hybrid_allowed |-> hybrid_allowed, max_distance_miles |-> max_distance_miles]

(***************************************************************************)
(* match_location as a step machine: the call, the checks before the loop, *)
(* one step per loop iteration, and the return after the loop.             *)
(***************************************************************************)
MaxRequired == 2

SeqsUpTo(S, n) == UNION {[1..k -> S] : k \in 0..n}

MaxDistances == {0, 168, 400}

NoArgs == MatchArgs("", <<>>, FALSE, FALSE, 0)
NoMatchYet == LocationMatch("no_match", R(0), NoneRat, 0)

MatchInit ==
  /\ m_in = NoArgs
  /\ m_pc = "idle"
  /\ m_cand = 0
  /\ m_i = 0
  /\ m_best = NoMatchYet
  /\ m_result = NoMatchYet

MatchCall ==
  /\ m_pc = "idle"
  /\ \E cand \in CandidateLocations, reqs \in SeqsUpTo(RequiredEntries, MaxRequired),
        remote_allowed \in BOOLEAN, hybrid_allowed \in BOOLEAN, d \in MaxDistances :
       m_in' = MatchArgs(cand, reqs, remote_allowed, hybrid_allowed, d)
  /\ m_pc' = "start"
  /\ UNCHANGED <<m_cand, m_i, m_best, m_result>>
  /\ UNCHANGED <<rankVars, callVars, concVars, sessVars>>

\* the checks before the loop, with outcome p
StartWith(p) ==
  IF p.done
  THEN /\ m_result' = p.result
       /\ m_pc' = "done"
       /\ UNCHANGED <<m_cand, m_i, m_best>>
  ELSE /\ m_cand' = p.cand
       /\ m_best' = p.result
       /\ m_i' = 1
       /\ m_pc' = "loop"
       /\ UNCHANGED m_result

MatchStart ==
  /\ m_pc = "start"
  /\ StartWith(MatchPrologue(m_in))
  /\ UNCHANGED m_in
  /\ UNCHANGED <<rankVars, callVars, concVars, sessVars>>

\* one loop iteration, with outcome e
IterateWith(e) ==
  IF e.done
  THEN /\ m_result' = e.best
       /\ m_pc' = "done"
       /\ UNCHANGED <<m_i, m_best>>
  ELSE /\ m_best' = e.best
       /\ m_i' = m_i + 1
       /\ UNCHANGED <<m_pc, m_result>>

MatchIterate ==
  /\ m_pc = "loop"
  /\ m_i <= Len(m_in.reqs)
  /\ IterateWith(MatchEntry(m_in, m_cand, m_in.reqs[m_i], m_best))
  /\ UNCHANGED <<m_in, m_cand>>
  /\ UNCHANGED <<rankVars, callVars, concVars, sessVars>>

MatchReturn ==
  /\ m_pc = "loop"
  /\ m_i > Len(m_in.reqs)
  /\ m_result' = m_best
  /\ m_pc' = "done"
  /\ UNCHANGED <<m_in, m_cand, m_i, m_best>>
  /\ UNCHANGED <<rankVars, callVars, concVars, sessVars>>

NextMatch == MatchCall \/ MatchStart \/ MatchIterate \/ MatchReturn

(***************************************************************************)
(* models.py: the inputs.  Optional fields carry a "present" flag (None is *)
(* present = FALSE); an Optional[int] that the code only tests for         *)
(* truthiness is 0 for None; dates are <<year, month, day>>.               *)
(***************************************************************************)
NoDate == <<0, 0, 0>>

\* datetime.toordinal up to a constant: days since a fixed epoch.
ToOrdinal(date) ==
  LET y   == IF date[2] <= 2 THEN date[1] - 1 ELSE date[1]
      mp  == IF date[2] > 2 THEN date[2] - 3 ELSE date[2] + 9
      era == y \div 400
      yoe == y - era * 400
      doy == (153 * mp + 2) \div 5 + date[3] - 1
      doe == yoe * 365 + yoe \div 4 - yoe \div 100 + doy
  IN  era * 146097 + doe

\* (a - b).days for two datetimes (the time of day does not change the floor
\* when b is a date at midnight).
DaysBetween(a, b) == ToOrdinal(a) - ToOrdinal(b)

\* datetime.now() during the scoring pass.
Today == <<2025, 6, 15>>

Experience(title, company, start_date, end_date, is_current, description) ==
  [title |-> title, company |-> company, start_date |-> start_date,
   end_date |-> end_date, is_current |-> is_current, description |-> description]

Education(degree, field, school) == [degree |-> degree, field |-> field, school |-> school]

CandidateProfile(linkedin_id, headline, location, summary, experiences, education, skills, certifications, publications, tfidf) ==
  [linkedin_id |-> linkedin_id, headline |-> headline, location |-> location,
   summary |-> summary, experiences |-> experiences, education |-> education,
   skills |-> skills, certifications |-> certifications,
   publications |-> publications, tfidf |-> tfidf]

\* max_years: Optional[int], with -1 for None
ExperienceRequirement(min_years, max_years) ==
  [present |-> TRUE, min_years |-> min_years, max_years |-> max_years]
NoExperienceRequirement == [present |-> FALSE, min_years |-> 0, max_years |-> -1]

EducationRequirement(level, fields, required) ==
  [present |-> TRUE, level |-> level, fields |-> fields, required |-> required]
NoEducationRequirement == [present |-> FALSE, level |-> "", fields |-> <<>>, required |-> FALSE]

LocationRequirement(cities, states, countries, remote, hybrid, max_distance_miles, strict_location_filter, location_weight_multiplier) ==
  [present |-> TRUE, cities |-> cities, states |-> states, countries |-> countries,
   remote |-> remote, hybrid |-> hybrid, max_distance_miles |-> max_distance_miles,
   strict_location_filter |-> strict_location_filter,
   location_weight_multiplier |-> location_weight_multiplier]
NoLocationRequirement ==
  [present |-> FALSE, cities |-> <<>>, states |-> <<>>, countries |-> <<>>,
   remote |-> FALSE, hybrid |-> FALSE, max_distance_miles |-> 0,
   strict_location_filter |-> FALSE, location_weight_multiplier |-> R(1)]

ParsedJobDescription(required_skills, preferred_skills, experience, education, location, industry_experience, job_description_text) ==
  [required_skills |-> required_skills, preferred_skills |-> preferred_skills,
   experience |-> experience, education |-> education, location |-> location,
   industry_experience |-> industry_experience,
   job_description_text |-> job_description_text]

ScoreComponent(name, weight, raw_score, weighted_score, details) ==
  [name |-> name, weight |-> weight, raw_score |-> raw_score,
   weighted_score |-> weighted_score, details |-> details]

(***************************************************************************)
(* Python list / set helpers.                                              *)
(***************************************************************************)
Range(s) == {s[i] : i \in DOMAIN s}
LowerSet(s) == {Lower(s[i]) : i \in DOMAIN s}

RECURSIVE SumTo(_, _)
SumTo(f, n) == IF n = 0 THEN 0 ELSE f[n] + SumTo(f, n - 1)

RECURSIVE RSumTo(_, _)
RSumTo(f, n) == IF n = 0 THEN R(0) ELSE RAdd(RSumTo(f, n - 1), f[n])

\* sep.join(list)
RECURSIVE Join(_, _)
Join(s, sep) ==
  IF Len(s) = 0 THEN ""
  ELSE IF Len(s) = 1 THEN s[1]
  ELSE s[1] \o sep \o Join(Tail(s), sep)

\* s.replace(old, new) for a one-character old
RECURSIVE ReplaceChar(_, _, _)
ReplaceChar(s, old, new) ==
  IF Len(s) = 0 THEN ""
  ELSE (IF SubSeq(s, 1, 1) = old THEN new ELSE SubSeq(s, 1, 1))
       \o ReplaceChar(SubSeq(s, 2, Len(s)), old, new)

Max2(a, b) == IF a >= b THEN a ELSE b

(***************************************************************************)
(* scoring_engine.py: helper methods.                                      *)
(***************************************************************************)
skill_relations ==
  <<<<"javascript", {"typescript", "node.js", "react", "angular", "vue"}>>,
    <<"python", {"django", "flask", "fastapi", "pandas", "numpy"}>>,
    <<"java", {"spring", "hibernate", "maven", "gradle"}>>,
    <<"cloud", {"aws", "azure", "gcp", "devops"}>>,
    <<"machine learning", {"tensorflow", "pytorch", "scikit-learn", "deep learning", "ai"}>>>>

\* A variant that looks for the base skill in the first argument only.
_is_related_skill_BaseFirst(skill1, skill2) ==
  \E k \in 1..Len(skill_relations) :
    skill1 = skill_relations[k][1] /\ skill2 \in skill_relations[k][2]

_is_related_skill(skill1, skill2) ==
  \E k \in 1..Len(skill_relations) :
    \/ (skill1 = skill_relations[k][1] /\ skill2 \in skill_relations[k][2])
    \/ (skill2 = skill_relations[k][1] /\ skill1 \in skill_relations[k][2])

skill_keywords ==
  {"python", "java", "javascript", "typescript", "react", "angular",
   "node.js", "django", "flask", "spring", "docker", "kubernetes",
   "aws", "azure", "gcp", "sql", "nosql", "mongodb", "postgresql"}

_extract_skills_from_experience(c) ==
  LET exp_text == [i \in 1..Len(c.experiences) |-> Lower(c.experiences[i].description)]
  IN  {skill \in skill_keywords : \E i \in 1..Len(c.experiences) : IsSubstr(skill, exp_text[i])}

\* (end.year - start.year) * 12 + (end.month - start.month), end = end_date or now
TenureMonths(exp) ==
  LET end == IF exp.end_date # NoDate THEN exp.end_date ELSE Today
  IN  Max2(0, (end[1] - exp.start_date[1]) * 12 + (end[2] - exp.start_date[2]))

\* total_months of _calculate_total_experience and _calculate_average_tenure
TotalMonths(c) ==
  SumTo([i \in 1..Len(c.experiences) |->
           IF c.experiences[i].start_date # NoDate THEN TenureMonths(c.experiences[i]) ELSE 0],
        Len(c.experiences))

_calculate_total_experience(c) ==
  IF Len(c.experiences) = 0 THEN R(0) ELSE Rat(TotalMonths(c), 12)

\* A variant without the early return for a candidate without experience entries.
_calculate_experience_relevance_NoEarlyReturn(j, c) ==
  LET candidate_exp_text ==
        Join([i \in 1..Len(c.experiences) |-> c.experiences[i].description], " ")
  IN  IF candidate_exp_text = "" \/ j.job_description_text = "" THEN R(50)
      ELSE IF c.tfidf < 0 THEN R(50)
      ELSE RMul(Rat(c.tfidf, 100), R(100))

\* The TF-IDF fit and cosine similarity are sklearn's; their outcome for a
\* candidate's text is the profile's tfidf field: -1 when the library raises,
\* otherwise the similarity in hundredths (similarity = tfidf / 100).
_calculate_experience_relevance(j, c) ==
  IF Len(c.experiences) = 0 THEN R(0)
  ELSE LET candidate_exp_text ==
             Join([i \in 1..Len(c.experiences) |-> c.experiences[i].description], " ")
       IN  IF candidate_exp_text = "" \/ j.job_description_text = "" THEN R(50)
           ELSE IF c.tfidf < 0 THEN R(50)
           ELSE RMul(Rat(c.tfidf, 100), R(100))

\* most_recent of _calculate_experience_recency: the latest end_date, NoDate if none
RECURSIVE MostRecentEnd(_, _, _)
MostRecentEnd(exps, i, most_recent) ==
  IF i > Len(exps) THEN most_recent
  ELSE IF exps[i].end_date # NoDate
          /\ (most_recent = NoDate \/ ToOrdinal(exps[i].end_date) > ToOrdinal(most_recent))
       THEN MostRecentEnd(exps, i + 1, exps[i].end_date)
       ELSE MostRecentEnd(exps, i + 1, most_recent)

_calculate_experience_recency(c) ==
  IF Len(c.experiences) = 0 THEN R(0)
  ELSE IF \E i \in 1..Len(c.experiences) : c.experiences[i].is_current THEN R(100)
  ELSE LET most_recent == MostRecentEnd(c.experiences, 1, NoDate) IN
       IF most_recent = NoDate THEN R(50)
       ELSE LET months_gap == Rat(DaysBetween(Today, most_recent), 30) IN
            IF RLt(months_gap, R(3)) THEN R(95)
            ELSE IF RLt(months_gap, R(6)) THEN R(85)
            ELSE IF RLt(months_gap, R(12)) THEN R(70)
            ELSE RMax(R(30), RSub(R(100), RMul(months_gap, R(2))))

seniority_keywords ==
  <<<<"junior", 1>>, <<"associate", 2>>, <<"mid", 3>>, <<"senior", 4>>,
    <<"lead", 5>>, <<"principal", 6>>, <<"manager", 7>>, <<"director", 8>>>>

\* max([v for k, v in seniority_keywords.items() if k in title], default=3)
SeniorityLevelOf(title) ==
  LET hits == {seniority_keywords[k][2] : k \in {n \in 1..Len(seniority_keywords) :
                                                   IsSubstr(seniority_keywords[n][1], title)}}
  IN  IF hits = {} THEN 3 ELSE CHOOSE v \in hits : \A u \in hits : u <= v

_calculate_career_progression(c) ==
  IF Len(c.experiences) < 2 THEN R(50)
  ELSE LET steps == {i \in 1..(Len(c.experiences) - 1) :
                       SeniorityLevelOf(Lower(c.experiences[i].title))
                         > SeniorityLevelOf(Lower(c.experiences[i + 1].title))}
       IN  RMin(R(50 + 10 * Cardinality(steps)), R(100))

education_keywords ==
  <<<<"phd", "phd">>, <<"doctorate", "phd">>, <<"master", "master">>,
    <<"mba", "master">>, <<"bachelor", "bachelor">>, <<"associate", "associate">>>>

\* hierarchy_values.get(level, 0) of _get_highest_education_level
HierarchyValue(level) ==
  CASE level = "associate" -> 2
    [] level = "bachelor" -> 3
    [] level = "master" -> 4
    [] level = "phd" -> 5
    [] OTHER -> 0

\* The nested loops of _get_highest_education_level from education entry e,
\* keyword k onward; "" is None.
RECURSIVE HighestFrom(_, _, _, _)
HighestFrom(education, e, k, highest) ==
  IF e > Len(education) THEN highest
  ELSE IF k > Len(education_keywords) THEN HighestFrom(education, e + 1, 1, highest)
  ELSE IF /\ IsSubstr(education_keywords[k][1], Lower(education[e].degree))
          /\ (highest = "" \/ HierarchyValue(education_keywords[k][2]) > HierarchyValue(highest))
       THEN HighestFrom(education, e, k + 1, education_keywords[k][2])
       ELSE HighestFrom(education, e, k + 1, highest)

_get_highest_education_level(c) == HighestFrom(c.education, 1, 1, "")

\* A variant that gives 75 only when the job names no field.
_score_education_field_FieldsOnly(required_fields, education) ==
  IF Len(required_fields) = 0 THEN R(75)
  ELSE IF \E e \in 1..Len(education), f \in 1..Len(required_fields) :
            \/ IsSubstr(Lower(required_fields[f]), Lower(education[e].field))
            \/ IsSubstr(Lower(education[e].field), Lower(required_fields[f]))
       THEN R(100)
       ELSE R(30)

_score_education_field(required_fields, education) ==
  IF Len(required_fields) = 0 \/ Len(education) = 0 THEN R(75)
  ELSE IF \E e \in 1..Len(education), f \in 1..Len(required_fields) :
            \/ IsSubstr(Lower(required_fields[f]), Lower(education[e].field))
            \/ IsSubstr(Lower(education[e].field), Lower(required_fields[f]))
       THEN R(100)
       ELSE R(30)

industry_keywords ==
  {"fintech", "healthcare", "e-commerce", "saas", "education",
   "gaming", "social media", "cybersecurity", "ai", "blockchain"}

_extract_industries(c) ==
  {keyword \in industry_keywords :
     \E i \in 1..Len(c.experiences) :
       IsSubstr(keyword, Lower(c.experiences[i].company \o " " \o c.experiences[i].description))}

advancement_keywords == {"senior", "lead", "principal", "manager", "director", "vp"}

_is_advancement(previous, current) ==
  Cardinality({k \in advancement_keywords : IsSubstr(k, Lower(current.title))})
    > Cardinality({k \in advancement_keywords : IsSubstr(k, Lower(previous.title))})

\* total_gap_months after the loop of _calculate_employment_gaps ran from pair
\* i onward: each gap is days / 30, added when it is above 1.
RECURSIVE GapMonthsFrom(_, _, _)
GapMonthsFrom(experiences, i, total_gap_months) ==
  IF i > Len(experiences) - 1 THEN total_gap_months
  ELSE IF experiences[i].start_date # NoDate /\ experiences[i + 1].end_date # NoDate
  THEN LET gap == Rat(DaysBetween(experiences[i].start_date, experiences[i + 1].end_date), 30)
       IN  GapMonthsFrom(experiences, i + 1,
                         IF RLt(R(1), gap) THEN RAdd(total_gap_months, gap)
                         ELSE total_gap_months)
  ELSE GapMonthsFrom(experiences, i + 1, total_gap_months)

\* int(total_gap_months)
_calculate_employment_gaps(c) ==
  IF Len(c.experiences) < 2 THEN 0
  ELSE RInt(GapMonthsFrom(c.experiences, 1, R(0)))

_calculate_average_tenure(c) ==
  LET job_count == Cardinality({i \in 1..Len(c.experiences) : c.experiences[i].start_date # NoDate})
  IN  IF Len(c.experiences) = 0 THEN R(0)
      ELSE IF job_count > 0 THEN RDiv(Rat(TotalMonths(c), 12), R(job_count))
      ELSE R(0)

_get_candidate_text(c) ==
  Join(<<c.headline, c.summary>>
       \o [k \in 1..(2 * Len(c.experiences)) |->
             IF k % 2 = 1 THEN c.experiences[(k + 1) \div 2].title
             ELSE c.experiences[(k + 1) \div 2].description],
       " ")

(***************************************************************************)
(* _extract_keywords: re.findall(r'\b[a-z]+\b', text.lower()), stopword    *)
(* and length filter, Counter(...).most_common(top_n).                      *)
(***************************************************************************)
Digits == "0123456789"
IsLetter(ch) == ch \in DOMAIN ToUpper
\* the letters and digits of U+0080 to U+00FF that have no other case in that range
OtherWordChars == "ª²³µ¹º¼½¾ßÿ"
\* the characters \w matches: letters, digits and the underscore
WordChars ==
  DOMAIN ToLower \cup {ToLower[u] : u \in DOMAIN ToLower} \cup {"_"}
  \cup {SubSeq(Digits, i, i) : i \in 1..Len(Digits)}
  \cup {SubSeq(OtherWordChars, i, i) : i \in 1..Len(OtherWordChars)}
IsWordChar(ch) == ch \in WordChars

\* the last position of the run of letters that starts at i
RunEnd(t, i) ==
  CHOOSE e \in i..Len(t) :
    /\ \A k \in i..e : IsLetter(SubSeq(t, k, k))
    /\ (e = Len(t) \/ ~IsLetter(SubSeq(t, e + 1, e + 1)))

\* a run of letters starts at i, right after a non-word character
StartsRun(t, i) ==
  IsLetter(SubSeq(t, i, i)) /\ (i = 1 \/ ~IsWordChar(SubSeq(t, i - 1, i - 1)))

\* the matches of \b[a-z]+\b in t from position i onward, in order
RECURSIVE FindWords(_, _)
FindWords(t, i) ==
  IF \A k \in i..Len(t) : ~StartsRun(t, k) THEN <<>>
  ELSE LET s == CHOOSE k \in i..Len(t) : StartsRun(t, k) /\ \A m \in i..(k - 1) : ~StartsRun(t, m)
           e == RunEnd(t, s)
       IN  IF e = Len(t) \/ ~IsWordChar(SubSeq(t, e + 1, e + 1))
           THEN <<SubSeq(t, s, e)>> \o FindWords(t, e + 1)
           ELSE FindWords(t, e + 1)

stopwords ==
  {"the", "a", "an", "and", "or", "but", "in", "on", "at", "to", "for",
   "of", "with", "by", "from", "as", "is", "was", "are", "were"}

top_n == 20

\* Counter(words).most_common(top_n): the words ordered by count (descending),
\* ties in order of first occurrence, cut after top_n.
MostCommon(words, n) ==
  LET first(x) == CHOOSE i \in 1..Len(words) : words[i] = x /\ \A k \in 1..(i - 1) : words[k] # x
      count(x) == Cardinality({i \in 1..Len(words) : words[i] = x})
      rank(x) == Cardinality({y \in Range(words) :
                    count(y) > count(x) \/ (count(y) = count(x) /\ first(y) < first(x))})
  IN  {x \in Range(words) : rank(x) < n}

_extract_keywords(text) ==
  MostCommon(SelectSeq(FindWords(Lower(text), 1), LAMBDA x : x \notin stopwords /\ Len(x) > 2),
             top_n)

(***************************************************************************)
(* scoring_engine.py: the seven component scorers.  w is self.weights.     *)
(***************************************************************************)
\* The orders in which a for loop, or list(), can visit the elements of a set.
RECURSIVE Orders(_)
Orders(S) ==
  IF S = {} THEN {<<>>}
  ELSE UNION {{<<x>> \o order : order \in Orders(S \ {x})} : x \in S}

\* The subsets of S that leave n of its elements out.
RECURSIVE Without(_, _)
Without(S, n) == IF n = 0 THEN {S} ELSE UNION {Without(S \ {x}, n - 1) : x \in S}

\* list(S)[:20] as the set of its elements: all of S when it has at most 20,
\* otherwise the 20 that the iteration order puts first
Listings(S) == Without(S, Max2(0, Cardinality(S) - 20))

\* required_partials after the loop over the required skills visited them
\* from position i onward
RECURSIVE RequiredPartialsFrom(_, _, _, _)
RequiredPartialsFrom(order, i, candidate_skills, required_partials) ==
  IF i > Len(order) THEN required_partials
  ELSE IF order[i] \in candidate_skills
  THEN RequiredPartialsFrom(order, i + 1, candidate_skills, required_partials)
  ELSE IF \E c_skill \in candidate_skills : _is_related_skill(order[i], c_skill)
  THEN RequiredPartialsFrom(order, i + 1, candidate_skills,
                            RAdd(required_partials, Rat(6, 10)))
  ELSE IF \E c_skill \in candidate_skills :
            IsSubstr(order[i], c_skill) \/ IsSubstr(c_skill, order[i])
  THEN RequiredPartialsFrom(order, i + 1, candidate_skills,
                            RAdd(required_partials, Rat(4, 10)))
  ELSE RequiredPartialsFrom(order, i + 1, candidate_skills, required_partials)

\* preferred_matches after the loop over the preferred skills visited them
\* from position i onward
RECURSIVE PreferredMatchesFrom(_, _, _, _)
PreferredMatchesFrom(order, i, candidate_skills, preferred_matches) ==
  IF i > Len(order) THEN preferred_matches
  ELSE IF order[i] \in candidate_skills
  THEN PreferredMatchesFrom(order, i + 1, candidate_skills,
                            RAdd(preferred_matches, Rat(5, 10)))
  ELSE IF \E c_skill \in candidate_skills : _is_related_skill(order[i], c_skill)
  THEN PreferredMatchesFrom(order, i + 1, candidate_skills,
                            RAdd(preferred_matches, Rat(3, 10)))
  ELSE PreferredMatchesFrom(order, i + 1, candidate_skills, preferred_matches)

\* the three sets of _score_skills
SkillSets(j, c) ==
  [required_skills |-> LowerSet(j.required_skills),
   preferred_skills |-> LowerSet(j.preferred_skills),
   candidate_skills |-> LowerSet(c.skills) \cup _extract_skills_from_experience(c)]

\* _score_skills from its three sets on, when they are iterated as given:
\* iteration holds the order in which each loop visits its set, and what
\* list(candidate_skills)[:20] keeps.
_score_skills_In(w, sets, iteration) ==
  LET required_skills  == sets.required_skills
      preferred_skills == sets.preferred_skills
      candidate_skills == sets.candidate_skills
      required_matches == Cardinality(required_skills \cap candidate_skills)
      required_partials ==
        RequiredPartialsFrom(iteration.required_skills, 1, candidate_skills, R(0))
      preferred_matches ==
        PreferredMatchesFrom(iteration.preferred_skills, 1, candidate_skills, R(0))
      required_score ==
        IF required_skills # {}
        THEN RMul(RDiv(RAdd(R(required_matches), required_partials),
                       R(Cardinality(required_skills))), R(80))
        ELSE R(80)
      preferred_score ==
        IF preferred_skills # {}
        THEN RMul(RDiv(preferred_matches, R(Cardinality(preferred_skills))), R(20))
        ELSE R(0)
      raw_score == RAdd(required_score, preferred_score)
  IN  ScoreComponent("skill_match", w["skill_match"], raw_score,
                     RMul(raw_score, w["skill_match"]),
                     [required_matches |-> required_matches,
                      required_total |-> Cardinality(required_skills),
                      preferred_matches |-> preferred_matches,
                      preferred_total |-> Cardinality(preferred_skills),
                      \* list(candidate_skills)[:20], as the set of its elements
                      candidate_skills |-> iteration.candidate_skills])

\* the iterations that a call can see
SkillIterations(sets) ==
  [required_skills : Orders(sets.required_skills),
   preferred_skills : Orders(sets.preferred_skills),
   candidate_skills : Listings(sets.candidate_skills)]

\* one result per iteration of the sets
SkillOutcomes(w, sets) == {_score_skills_In(w, sets, iteration) : iteration \in SkillIterations(sets)}

\* _score_skills: the results a call can give.  The order of a set of strings
\* follows the hash seed of the process, so a call returns one of them; they
\* are all the same while a loop adds at most three partial credits and the
\* candidate has at most 20 skills.
_score_skills(w, j, c) == SkillOutcomes(w, SkillSets(j, c))

\* years_score of _score_experience.  "job.experience.max_years and ..." is
\* false for None and for 0 alike: the test is max_years > 0.
YearsScore(j, total_years) ==
  IF j.experience.present
  THEN IF RLeq(R(j.experience.min_years), total_years)
       THEN IF j.experience.max_years > 0 /\ RLeq(total_years, R(j.experience.max_years))
            THEN R(100)
            ELSE IF j.experience.max_years > 0 /\ RLt(R(j.experience.max_years), total_years)
            THEN RMax(R(70), RSub(R(100), RMul(RSub(total_years, R(j.experience.max_years)), R(5))))
            ELSE R(100)
       ELSE RMax(R(0), RSub(R(100), RMul(RSub(R(j.experience.min_years), total_years), R(20))))
  ELSE R(80)

_score_experience(w, j, c) ==
  LET total_years       == _calculate_total_experience(c)
      years_score       == YearsScore(j, total_years)
      relevance_score   == _calculate_experience_relevance(j, c)
      recency_score     == _calculate_experience_recency(c)
      progression_score == _calculate_career_progression(c)
      raw_score == RAdd(RAdd(RAdd(RMul(years_score, Rat(40, 100)),
                                  RMul(relevance_score, Rat(35, 100))),
                             RMul(recency_score, Rat(15, 100))),
                        RMul(progression_score, Rat(10, 100)))
  IN  ScoreComponent("experience_match", w["experience_match"], raw_score,
                     RMul(raw_score, w["experience_match"]),
                     \* required_min / required_max: -1 is None
                     [total_years |-> total_years,
                      required_min |-> IF j.experience.present THEN j.experience.min_years ELSE -1,
                      required_max |-> IF j.experience.present THEN j.experience.max_years ELSE -1,
                      relevance_score |-> relevance_score,
                      recency_score |-> recency_score])

education_hierarchy(level) ==
  CASE level = "high_school" -> 1
    [] level = "associate" -> 2
    [] level = "bachelor" -> 3
    [] level = "master" -> 4
    [] level = "phd" -> 5
    [] level = "professional" -> 4

_score_education(w, j, c) ==
  IF ~j.education.present
  THEN ScoreComponent("education_match", w["education_match"], R(100),
                      RMul(R(100), w["education_match"]), [status |-> "no_requirement"])
  ELSE
    LET candidate_level == _get_highest_education_level(c)
        candidate_value == education_hierarchy(candidate_level)
        required_value  == education_hierarchy(j.education.level)
        level_score ==
          IF candidate_level # ""
          THEN IF candidate_value >= required_value THEN R(100)
               ELSE RMax(R(0), R(100 - (required_value - candidate_value) * 25))
          ELSE IF j.education.required THEN R(0) ELSE R(50)
        field_score == _score_education_field(j.education.fields, c.education)
        raw_score == RAdd(RMul(level_score, Rat(6, 10)), RMul(field_score, Rat(4, 10)))
    IN  ScoreComponent("education_match", w["education_match"], raw_score,
                       RMul(raw_score, w["education_match"]),
                       [candidate_level |-> candidate_level,
                        required_level |-> j.education.level,
                        field_match |-> RLt(R(50), field_score)])

_score_industry(w, j, c) ==
  IF Len(j.industry_experience) = 0
  THEN ScoreComponent("industry_match", w["industry_match"], R(100),
                      RMul(R(100), w["industry_match"]), [status |-> "no_requirement"])
  ELSE
    LET candidate_industries == _extract_industries(c)
        matches == Cardinality({i \in 1..Len(j.industry_experience) :
                     \E ci \in candidate_industries :
                        IsSubstr(Lower(j.industry_experience[i]), Lower(ci))})
        raw_score == RMul(Rat(matches, Len(j.industry_experience)), R(100))
    IN  ScoreComponent("industry_match", w["industry_match"], raw_score,
                       RMul(raw_score, w["industry_match"]),
                       [required_industries |-> j.industry_experience,
                        candidate_industries |-> candidate_industries, matches |-> matches])

\* The match_location call both should_filter_candidate and _score_location make.
JobLocationMatch(j, c) ==
  match_location(MatchArgs(c.location,
                           j.location.cities \o j.location.states \o j.location.countries,
                           j.location.remote, j.location.hybrid,
                           j.location.max_distance_miles))

\* A variant that adjusts strictly above 80 and strictly below 40 only.
AdjustedLocationScore_StrictBounds(confidence, multiplier) ==
  IF multiplier # R(1)
  THEN IF RLt(R(80), confidence)
       THEN [raised |-> FALSE, value |-> RMin(R(100), RMul(confidence, multiplier))]
       ELSE IF RLt(confidence, R(40))
       THEN IF multiplier[1] = 0
            THEN [raised |-> TRUE, value |-> R(0)]
            ELSE [raised |-> FALSE, value |-> RMax(R(0), RDiv(confidence, multiplier))]
       ELSE [raised |-> FALSE, value |-> confidence]
  ELSE [raised |-> FALSE, value |-> confidence]

\* Lines 406-415: the multiplier's adjustment of the raw score.  The division
\* by a multiplier of 0 raises ZeroDivisionError: raised = TRUE.
AdjustedLocationScore(confidence, multiplier) ==
  IF multiplier # R(1)
  THEN IF RLeq(R(80), confidence)
       THEN [raised |-> FALSE, value |-> RMin(R(100), RMul(confidence, multiplier))]
       ELSE IF RLeq(confidence, R(40))
       THEN IF multiplier[1] = 0
            THEN [raised |-> TRUE, value |-> R(0)]
            ELSE [raised |-> FALSE, value |-> RMax(R(0), RDiv(confidence, multiplier))]
       ELSE [raised |-> FALSE, value |-> confidence]
  ELSE [raised |-> FALSE, value |-> confidence]

\* Lines 417-421
EffectiveLocationWeight(w, multiplier) ==
  IF RLt(R(1), multiplier)
  THEN RMin(Rat(1, 2), RMul(w["location_match"], multiplier))
  ELSE w["location_match"]

\* Lines 425-445: the details of the location component, without the
\* matcher's free-text message; matched_location is present only when the
\* match names a city.
LocationDetails(j, c, effective_weight, location_match) ==
  [candidate_location |-> c.location,
   required_locations |-> j.location.cities \o j.location.states \o j.location.countries,
   match_type |-> location_match.match_type,
   match_confidence |-> location_match.confidence,
   distance_miles |-> location_match.distance_miles,
   remote_allowed |-> j.location.remote,
   hybrid_allowed |-> j.location.hybrid,
   max_distance_miles |-> j.location.max_distance_miles,
   location_weight_multiplier |-> j.location.location_weight_multiplier,
   effective_weight |-> effective_weight]
  @@ (IF location_match.matched_location # 0
      THEN [matched_location |->
              [name    |-> us_and_international_cities[location_match.matched_location].city,
               city    |-> us_and_international_cities[location_match.matched_location].city,
               state   |-> us_and_international_cities[location_match.matched_location].state,
               country |-> us_and_international_cities[location_match.matched_location].country]]
      ELSE <<>>)

\* Lines 406-454: the component for the match found.  raised = TRUE when the
\* adjustment raises instead of returning.
LocationComponent(effective_weight, adjusted, details) ==
  [raised |-> adjusted.raised,
   component |-> ScoreComponent("location_match", effective_weight, adjusted.value,
                                RMul(adjusted.value, effective_weight), details)]

\* The component once the effective weight is known
WeightedLocationComponent(j, c, effective_weight, location_match) ==
  LocationComponent(effective_weight,
                    AdjustedLocationScore(location_match.confidence,
                                          j.location.location_weight_multiplier),
                    LocationDetails(j, c, effective_weight, location_match))

\* _score_location once match_location gave location_match
ScoreMatchedLocation(w, j, c, location_match) ==
  WeightedLocationComponent(j, c,
                            EffectiveLocationWeight(w, j.location.location_weight_multiplier),
                            location_match)

\* A variant that scores an absent requirement like LocationRequirement().
_score_location_AbsentAsEmpty(w, j, c) == ScoreMatchedLocation(w, j, c, JobLocationMatch(j, c))

\* raised = TRUE when the call raises instead of returning a component
_score_location(w, j, c) ==
  IF ~j.location.present
  THEN [raised |-> FALSE,
        component |-> ScoreComponent("location_match", w["location_match"], R(100),
                                     RMul(R(100), w["location_match"]),
                                     [status |-> "no_requirement"])]
  ELSE ScoreMatchedLocation(w, j, c, JobLocationMatch(j, c))

_score_career_trajectory(w, j, c) ==
  LET n == Len(c.experiences)
      pair_points == SumTo([i \in 1..(IF n = 0 THEN 0 ELSE n - 1) |->
                              IF _is_advancement(c.experiences[i + 1], c.experiences[i])
                              THEN 20 ELSE 10],
                           IF n = 0 THEN 0 ELSE n - 1)
      gaps == _calculate_employment_gaps(c)
      gap_points == IF gaps < 6 THEN 30 ELSE IF gaps < 12 THEN 20 ELSE 10
      avg_tenure == _calculate_average_tenure(c)
      tenure_points == IF RLeq(R(2), avg_tenure) THEN 30
                       ELSE IF RLeq(R(1), avg_tenure) THEN 20 ELSE 10
      \* trajectory_points is never empty: the last two appends are unconditional
      raw_score == RMin(R(pair_points + gap_points + tenure_points), R(100))
  IN  ScoreComponent("career_trajectory", w["career_trajectory"], raw_score,
                     RMul(raw_score, w["career_trajectory"]),
                     [employment_gaps_months |-> gaps, average_tenure_years |-> avg_tenure,
                      shows_progression |-> RLt(R(70), raw_score)])

_score_keyword_density(w, j, c) ==
  LET candidate_text == Lower(_get_candidate_text(c))
      job_keywords   == _extract_keywords(j.job_description_text)
      matches == Cardinality({k \in job_keywords : IsSubstr(Lower(k), candidate_text)})
      raw_score == IF job_keywords # {}
                   THEN RMul(Rat(matches, Cardinality(job_keywords)), R(100))
                   ELSE R(50)
  IN  ScoreComponent("keyword_density", w["keyword_density"], raw_score,
                     RMul(raw_score, w["keyword_density"]),
                     [keywords_found |-> matches, keywords_total |-> Cardinality(job_keywords)])

(***************************************************************************)
(* scoring_engine.py: the insights attached to a score.  Formatted numbers *)
(* are kept as the exact value that the format string receives.            *)
(***************************************************************************)
\* sum(c.weighted_score for c in components)
WeightedSum(components) ==
  RSumTo([i \in 1..Len(components) |-> components[i].weighted_score], Len(components))

\* max(components, key=lambda c: c.raw_score): the first of the largest
MaxByRawScore(components) ==
  LET IsMax(k) == \A m \in 1..Len(components) :
                     RLeq(components[m].raw_score, components[k].raw_score)
  IN  components[FirstIndex({k \in 1..Len(components) : IsMax(k)})]

\* min(components, key=lambda c: c.raw_score): the first of the smallest
MinByRawScore(components) ==
  LET IsMin(k) == \A m \in 1..Len(components) :
                     RLeq(components[k].raw_score, components[m].raw_score)
  IN  components[FirstIndex({k \in 1..Len(components) : IsMin(k)})]

UpperChar(c) ==
  IF c \in DOMAIN ToUpper THEN ToUpper[c]
  ELSE c

\* str.title(): a letter that follows a non-letter is upper-cased, the others lower-cased
RECURSIVE TitleFrom(_, _)
TitleFrom(s, i) ==
  IF i > Len(s) THEN ""
  ELSE LET ch == SubSeq(s, i, i)
           starts == i = 1 \/ ~IsLetter(LowerChar(SubSeq(s, i - 1, i - 1)))
       IN  (IF starts THEN UpperChar(LowerChar(ch)) ELSE LowerChar(ch)) \o TitleFrom(s, i + 1)

Title(s) == TitleFrom(s, 1)

\* The explanation "<strength> match (<overall>/100). Strongest area: <area> (<raw>/100)."
_generate_match_explanation(components, j, c) ==
  LET overall_score == WeightedSum(components)
      strength == IF RLeq(R(85), overall_score) THEN "Excellent"
                  ELSE IF RLeq(R(70), overall_score) THEN "Strong"
                  ELSE IF RLeq(R(55), overall_score) THEN "Good"
                  ELSE IF RLeq(R(40), overall_score) THEN "Fair"
                  ELSE "Weak"
      best_component == MaxByRawScore(components)
  IN  [strength |-> strength, overall_score |-> overall_score,
       strongest_area |-> Title(ReplaceChar(best_component.name, "_", " ")),
       strongest_raw_score |-> best_component.raw_score]

\* list[:n]
FirstN(s, n) == SubSeq(s, 1, IF Len(s) < n THEN Len(s) ELSE n)

\* One entry of the missing list: "Required skill: <subject>",
\* "Experience: <years> years short of requirement" or
\* "Education: <subject> degree required".
Missing(kind, subject, years) == [kind |-> kind, subject |-> subject, years |-> years]

\* A variant that returns the whole list.
_identify_missing_requirements_Unlimited(j, c) ==
  LET candidate_skills == LowerSet(c.skills)
      absent == SelectSeq(j.required_skills, LAMBDA skill : Lower(skill) \notin candidate_skills)
      skills_missing == [i \in 1..Len(absent) |-> Missing("Required skill", absent[i], R(0))]
      total_years == _calculate_total_experience(c)
      experience_missing ==
        IF j.experience.present /\ RLt(total_years, R(j.experience.min_years))
        THEN <<Missing("Experience", "", RSub(R(j.experience.min_years), total_years))>>
        ELSE <<>>
      education_missing ==
        IF j.education.present /\ j.education.required
           /\ _get_highest_education_level(c) = ""
        THEN <<Missing("Education", j.education.level, R(0))>>
        ELSE <<>>
  IN  skills_missing \o experience_missing \o education_missing

_identify_missing_requirements(j, c) ==
  LET candidate_skills == LowerSet(c.skills)
      absent == SelectSeq(j.required_skills, LAMBDA skill : Lower(skill) \notin candidate_skills)
      skills_missing == [i \in 1..Len(absent) |-> Missing("Required skill", absent[i], R(0))]
      total_years == _calculate_total_experience(c)
      experience_missing ==
        IF j.experience.present /\ RLt(total_years, R(j.experience.min_years))
        THEN <<Missing("Experience", "", RSub(R(j.experience.min_years), total_years))>>
        ELSE <<>>
      education_missing ==
        IF j.education.present /\ j.education.required
           /\ _get_highest_education_level(c) = ""
        THEN <<Missing("Education", j.education.level, R(0))>>
        ELSE <<>>
  IN  FirstN(skills_missing \o experience_missing \o education_missing, 5)

valuable_extra_skills == <<"leadership", "mentoring", "agile", "scrum", "architecture">>

\* str(list_of_str) for strings without quotes or escapes
ListRepr(s) == "[" \o Join([i \in 1..Len(s) |-> "'" \o s[i] \o "'"], ", ") \o "]"

\* One entry of the strengths list: "Additional skill: <subject>",
\* "<count> professional certification(s)" or "<count> publication(s)".
Strength(kind, subject, count) == [kind |-> kind, subject |-> subject, count |-> count]

_identify_additional_strengths(j, c) ==
  LET candidate_skills == LowerSet(c.skills)
      required_text == Lower(ListRepr(j.required_skills))
      extra == SelectSeq(valuable_extra_skills,
                         LAMBDA skill : skill \in candidate_skills
                                        /\ ~IsSubstr(skill, required_text))
      skill_strengths == [i \in 1..Len(extra) |-> Strength("Additional skill", extra[i], 0)]
      certification_strengths ==
        IF Len(c.certifications) > 0
        THEN <<Strength("professional certification(s)", "", Len(c.certifications))>>
        ELSE <<>>
      publication_strengths ==
        IF Len(c.publications) > 0
        THEN <<Strength("publication(s)", "", Len(c.publications))>>
        ELSE <<>>
  IN  FirstN(skill_strengths \o certification_strengths \o publication_strengths, 3)

_generate_recommendations(components, j, c) ==
  LET overall_score == WeightedSum(components)
      weakest == MinByRawScore(components)
  IN  <<IF RLeq(R(70), overall_score) THEN "Strong candidate - recommend interview"
        ELSE IF RLeq(R(55), overall_score) THEN "Promising candidate - consider for interview"
        ELSE "May not meet minimum requirements">>
      \o (IF RLt(weakest.raw_score, R(60))
          THEN <<"Assess " \o ReplaceChar(weakest.name, "_", " ") \o " carefully in interview">>
          ELSE <<>>)

\* confidence starts at 1.0 and loses 0.1, 0.3, 0.2 and 0.1 in turn
_calculate_confidence(c) ==
  LET no_summary == IF c.summary = "" THEN RSub(R(1), Rat(1, 10)) ELSE R(1)
      no_experiences == IF Len(c.experiences) = 0 THEN RSub(no_summary, Rat(3, 10))
                        ELSE no_summary
      no_skills == IF Len(c.skills) = 0 THEN RSub(no_experiences, Rat(2, 10))
                   ELSE no_experiences
      confidence == IF Len(c.education) = 0 THEN RSub(no_skills, Rat(1, 10)) ELSE no_skills
  IN  RMax(Rat(3, 10), confidence)

(***************************************************************************)
(* ScoringEngine.score_candidate and should_filter_candidate.              *)
(***************************************************************************)
CandidateScore(candidate_id, job_description_id, overall_score, components, match_explanation, missing_requirements, additional_strengths, recommendations, confidence_level) ==
  [candidate_id |-> candidate_id, job_description_id |-> job_description_id,
   overall_score |-> overall_score, components |-> components,
   match_explanation |-> match_explanation,
   missing_requirements |-> missing_requirements,
   additional_strengths |-> additional_strengths,
   recommendations |-> recommendations, confidence_level |-> confidence_level]

\* A variant that divides the sum by the total of the component weights.
ScoreFromComponents_Renormalised(components, j, c) ==
  CandidateScore(c.linkedin_id, "unknown",
                 RMin(RDiv(WeightedSum(components),
                           RSumTo([k \in 1..Len(components) |-> components[k].weight],
                                  Len(components))),
                      R(100)),
                 components,
                 _generate_match_explanation(components, j, c),
                 _identify_missing_requirements(j, c),
                 _identify_additional_strengths(j, c),
                 _generate_recommendations(components, j, c),
                 _calculate_confidence(c))

\* Lines 152-176: the CandidateScore built from the seven components.
ScoreFromComponents(components, j, c) ==
  CandidateScore(c.linkedin_id, "unknown",
                 RMin(WeightedSum(components), R(100)), components,
                 _generate_match_explanation(components, j, c),
                 _identify_missing_requirements(j, c),
                 _identify_additional_strengths(j, c),
                 _generate_recommendations(components, j, c),
                 _calculate_confidence(c))

\* score_candidate once _score_skills gave skill_score and _score_location
\* gave location_score.  raised = TRUE when the call raises (the exception of
\* _score_location propagates) instead of returning a CandidateScore.
ScoreWithLocation(w, j, c, skill_score, location_score) ==
  IF location_score.raised
  THEN [raised |-> TRUE, score |-> <<>>]
  ELSE [raised |-> FALSE,
        score |-> ScoreFromComponents(
                    <<skill_score, _score_experience(w, j, c),
                      _score_education(w, j, c), _score_industry(w, j, c),
                      location_score.component,
                      _score_career_trajectory(w, j, c), _score_keyword_density(w, j, c)>>,
                    j, c)]

\* score_candidate: the outcomes a call can have, one per result of _score_skills
score_candidate(w, j, c) ==
  {ScoreWithLocation(w, j, c, skill_score, _score_location(w, j, c)) :
     skill_score \in _score_skills(w, j, c)}

acceptable_types == {"exact_city", "metro_area", "within_radius", "remote"}

\* A variant that filters on the confidence alone.
StrictVerdict_ConfidenceOnly(location_match) ==
  IF RLt(location_match.confidence, R(60))
  THEN [should_filter |-> TRUE, reason |-> "Location confidence too low"]
  ELSE [should_filter |-> FALSE, reason |-> ""]

\* Lines 97-112: the verdict on the match found
StrictVerdict(location_match) ==
  IF location_match.match_type \notin acceptable_types
  THEN [should_filter |-> TRUE, reason |-> "Location mismatch"]
  ELSE IF RLt(location_match.confidence, R(60))
  THEN [should_filter |-> TRUE, reason |-> "Location confidence too low"]
  ELSE [should_filter |-> FALSE, reason |-> ""]

\* A variant that filters for every location requirement, strict or not.
should_filter_candidate_AlwaysStrict(j, c) ==
  IF j.location.present
  THEN StrictVerdict(JobLocationMatch(j, c))
  ELSE [should_filter |-> FALSE, reason |-> ""]

should_filter_candidate(j, c) ==
  IF j.location.present /\ j.location.strict_location_filter
  THEN StrictVerdict(JobLocationMatch(j, c))
  ELSE [should_filter |-> FALSE, reason |-> ""]

(***************************************************************************)
(* ScoringEngine.__init__ and _validate_weights.  The weights argument is  *)
(* [given |-> FALSE] for None, otherwise the dict: its mapping as a        *)
(* function and its keys in insertion order.                               *)
(***************************************************************************)
DEFAULT_WEIGHTS ==
  [skill_match |-> Rat(30, 100), experience_match |-> Rat(20, 100),
   education_match |-> Rat(15, 100), industry_match |-> Rat(15, 100),
   location_match |-> Rat(10, 100), career_trajectory |-> Rat(5, 100),
   keyword_density |-> Rat(5, 100)]

\* the keys of DEFAULT_WEIGHTS in the order of the literal
DefaultKeys ==
  <<"skill_match", "experience_match", "education_match", "industry_match",
    "location_match", "career_trajectory", "keyword_density">>

NoWeights == [given |-> FALSE, map |-> <<>>, keys |-> <<>>]
GivenWeights(map, keys) == [given |-> TRUE, map |-> map, keys |-> keys]

\* weights or self.DEFAULT_WEIGHTS: None and the empty dict are both falsy
WeightsOrDefault(arg) ==
  IF arg.given /\ DOMAIN arg.map # {} THEN arg.map ELSE DEFAULT_WEIGHTS

\* list(self.weights) after 'weights or self.DEFAULT_WEIGHTS'
KeysOrDefault(arg) ==
  IF arg.given /\ DOMAIN arg.map # {} THEN arg.keys ELSE DefaultKeys

\* sum(self.weights.values()): the values are added in insertion order
SumOver(w, keys) == RSumTo([i \in 1..Len(keys) |-> w[keys[i]]], Len(keys))

\* TRUE when the check passes, FALSE when it raises ValueError
_validate_weights(w, keys) ==
  LET weight_sum == SumOver(w, keys)
  IN  RLeq(Rat(99, 100), weight_sum) /\ RLeq(weight_sum, Rat(101, 100))

(***************************************************************************)
(* The inputs explored: weight arguments, jobs and candidate profiles.     *)
(***************************************************************************)
WithKeywordDensity(hundredths) == [DEFAULT_WEIGHTS EXCEPT !["keyword_density"] = Rat(hundredths, 100)]

\* location_demo.py: the weights of a location-critical role
location_critical_weights ==
  [skill_match |-> Rat(25, 100), experience_match |-> Rat(20, 100),
   education_match |-> Rat(10, 100), industry_match |-> Rat(10, 100),
   location_match |-> Rat(30, 100), career_trajectory |-> Rat(3, 100),
   keyword_density |-> Rat(2, 100)]

\* the default keys with location_match moved to the end
LocationLastKeys ==
  <<"skill_match", "experience_match", "education_match", "industry_match",
    "career_trajectory", "keyword_density", "location_match">>

\* None, the empty dict, a custom map, and maps whose values are 0.98 .. 1.02
\* together, the one of 1.01 in two insertion orders
WeightArguments ==
  {NoWeights, GivenWeights(<<>>, <<>>), GivenWeights(location_critical_weights, DefaultKeys),
   GivenWeights(WithKeywordDensity(3), DefaultKeys), GivenWeights(WithKeywordDensity(4), DefaultKeys),
   GivenWeights(WithKeywordDensity(6), DefaultKeys), GivenWeights(WithKeywordDensity(6), LocationLastKeys),
   GivenWeights(WithKeywordDensity(7), DefaultKeys)}

AcceptedWeights ==
  {WeightsOrDefault(arg) :
     arg \in {a \in WeightArguments : _validate_weights(WeightsOrDefault(a), KeysOrDefault(a))}}

ana ==
  CandidateProfile("ana", "Senior Software Engineer", "San Francisco, CA",
    "Full-stack developer building payment services",
    <<Experience("Senior Software Engineer", "PayCo fintech", <<2021, 1, 1>>, NoDate, TRUE,
                 "Led Python and React services on AWS"),
      Experience("Software Engineer", "Webly", <<2018, 6, 1>>, <<2020, 12, 31>>, FALSE,
                 "Built Django APIs")>>,
    <<Education("Bachelor of Science", "Computer Science", "MIT")>>,
    <<"Python", "React", "Leadership">>, <<"AWS Certified">>, <<>>, 60)

bo ==
  CandidateProfile("bo", "Developer", "San Jose, CA", "",
    <<Experience("Developer", "Shop", <<2020, 3, 1>>, <<2024, 3, 31>>, FALSE, "Java backend")>>,
    <<>>, <<"python">>, <<>>, <<>>, -1)

cy ==
  CandidateProfile("cy", "Product Manager", "Los Angeles", "MBA graduate", <<>>,
    <<Education("MBA", "Business", "UCLA")>>, <<"Agile", "JavaScript">>, <<>>, <<"Paper">>, 0)

di ==
  CandidateProfile("di", "Junior Developer", "Seattle, WA", "Recent graduate",
    <<Experience("Junior Developer", "Cloudy saas", <<2024, 9, 1>>, NoDate, TRUE, "")>>,
    <<Education("PhD", "Physics", "UW")>>, <<>>, <<>>, <<>>, 0)

ed  == CandidateProfile("ed", "Engineer", "Remote", "", <<>>, <<>>, <<>>, <<>>, <<>>, 0)
flo == CandidateProfile("flo", "Engineer", "Mars", "", <<>>, <<>>, <<>>, <<>>, <<>>, 0)
gus == CandidateProfile("gus", "Engineer", "", "", <<>>, <<>>, <<>>, <<>>, <<>>, 0)

Profiles == {ana, bo, cy, di, ed, flo, gus}

\* The location requirements: absent; plain; strict and location-critical as
\* job_parser builds it; strict over cities, states and countries; multipliers
\* below 1; and LocationRequirement() with every field at its default.
JobLocations ==
  {NoLocationRequirement,
   LocationRequirement(<<"San Francisco">>, <<>>, <<>>, FALSE, FALSE, 0, FALSE, R(1)),
   LocationRequirement(<<"San Francisco">>, <<>>, <<>>, TRUE, FALSE, 50, TRUE, R(2)),
   LocationRequirement(<<"Seattle">>, <<"CA">>, <<"USA">>, FALSE, TRUE, 0, TRUE, R(1)),
   LocationRequirement(<<"San Francisco">>, <<>>, <<>>, FALSE, TRUE, 0, FALSE, Rat(1, 4)),
   LocationRequirement(<<"San Francisco">>, <<>>, <<>>, FALSE, FALSE, 0, FALSE, R(0)),
   LocationRequirement(<<>>, <<>>, <<>>, FALSE, FALSE, 0, FALSE, R(1))}

Jobs ==
  {ParsedJobDescription(<<"Python", "React">>, <<"Django", "AWS">>,
                        ExperienceRequirement(5, -1),
                        EducationRequirement("bachelor", <<"Computer Science">>, TRUE),
                        l, <<"fintech">>,
                        "Senior Python engineer to build fintech payment services with React")
     : l \in JobLocations}
  \cup {ParsedJobDescription(<<>>, <<>>, NoExperienceRequirement, NoEducationRequirement,
                             l, <<>>, "") : l \in JobLocations}

\* score_candidate (the outcomes of a call) and should_filter_candidate over
\* the inputs, evaluated once.
ScoreTable == [w \in AcceptedWeights, j \in Jobs, c \in Profiles |-> score_candidate(w, j, c)]
FilterTable == [j \in Jobs, c \in Profiles |-> should_filter_candidate(j, c)]

(***************************************************************************)
(* print of a line that starts with the check mark U+2713 (main.py).       *)
(***************************************************************************)
\* sys.stdout.encoding of the process
StdoutEncodings == {"utf-8", "ascii", "cp1252", "latin-1"}

\* str(e) of the UnicodeEncodeError that print raises when the encoding has
\* no check mark; "" when the line is printed
PrintErrorMessage ==
  "utf-8" :> ""
  @@ "ascii" :> "'ascii' codec can't encode character '\\u2713' in position 0: ordinal not in range(128)"
  @@ "cp1252" :> "'charmap' codec can't encode character '\\u2713' in position 0: character maps to <undefined>"
  @@ "latin-1" :> "'latin-1' codec can't encode character '\\u2713' in position 0: ordinal not in range(256)"

(***************************************************************************)
(* ScoringEngine.rank_candidates, called from                              *)
(* LinkedInCandidateSystem.score_candidates.  Candidates are referred to   *)
(* by their position in the caller's list.                                 *)
(***************************************************************************)
MaxBatch == 2

RankedCandidate(profile, score, rank, percentile) ==
  [profile |-> profile, score |-> score, rank |-> rank, percentile |-> percentile]

\* A variant that reverses an ascending sort: entries with equal keys swap.
SortByScoreDescending_TiesReversed(scored) ==
  LET n == Len(scored)
      Before(a, b) == \/ RLt(scored[b][2].overall_score, scored[a][2].overall_score)
                      \/ (scored[a][2].overall_score = scored[b][2].overall_score /\ a > b)
      place(i) == 1 + Cardinality({k \in 1..n : Before(k, i)})
  IN  [p \in 1..n |-> scored[CHOOSE i \in 1..n : place(i) = p]]

\* list.sort(key=lambda x: x[1].overall_score, reverse=True): descending and
\* stable, entries with equal keys keep their order.
SortByScoreDescending(scored) ==
  LET n == Len(scored)
      Before(a, b) == \/ RLt(scored[b][2].overall_score, scored[a][2].overall_score)
                      \/ (scored[a][2].overall_score = scored[b][2].overall_score /\ a < b)
      place(i) == 1 + Cardinality({k \in 1..n : Before(k, i)})
  IN  [p \in 1..n |-> scored[CHOOSE i \in 1..n : place(i) = p]]

\* A variant without the special case of a lone candidate.
Percentile_NoLoneCase(total, i) == RMul(Rat(total - i - 1, total), R(100))

\* i is the 0-based position in the sorted list
Percentile(total, i) ==
  IF total > 1 THEN RMul(Rat(total - i - 1, total), R(100)) ELSE R(100)

\* Object identity.  heap.objects lists the class of every object in the order
\* of creation, and an object is referred to by its place in that list;
\* heap.at_call is the number of objects that exist when score_candidates is
\* called; heap.scores gives, for a candidate position, the CandidateScore
\* that score_candidate returned for it and the ScoreComponent objects in its
\* components list; heap.rankings runs parallel to ranked.
NoObjects == [objects |-> <<>>, at_call |-> 0, scores |-> <<>>, rankings |-> <<>>]

\* the objects the caller passes: the job, the list and its profiles
CallerObjects(cs) ==
  LET passed == <<"ParsedJobDescription", "list">> \o [i \in 1..Len(cs) |-> "CandidateProfile"]
  IN  [objects |-> passed, at_call |-> Len(passed), scores |-> <<>>, rankings |-> <<>>]

\* the number of ScoreComponent(...) calls of one score_candidate call, and
\* of one that raises in _score_location
ComponentsPerScore == 7
ComponentsBeforeLocation == 4

\* n constructor calls of a class
NewObjects(h, class, n) == [h EXCEPT !.objects = @ \o [i \in 1..n |-> class]]

\* score_candidate returns for the candidate at position p: each scorer
\* called ScoreComponent(...), then CandidateScore(...) is called with the
\* list of the components
NewScore(h, p) ==
  LET first == Len(h.objects) + 1
      made == NewObjects(NewObjects(h, "ScoreComponent", ComponentsPerScore), "CandidateScore", 1)
  IN  [made EXCEPT !.scores =
         (p :> [id |-> first + ComponentsPerScore,
                components |-> [k \in 1..ComponentsPerScore |-> first + k - 1]]) @@ @]

\* RankedCandidate(profile=candidate, score=score, ...): a new object that
\* refers to the caller's profile and to the score of that candidate
NewRanking(h, p) ==
  [NewObjects(h, "RankedCandidate", 1) EXCEPT
     !.rankings = Append(@, [id |-> Len(h.objects) + 1, profile |-> p])]

\* ScoringEngine(weights=arg)
Construct ==
  /\ engine = "none"
  /\ \E arg \in WeightArguments :
       /\ supplied' = arg
       /\ weights' = WeightsOrDefault(arg)
       /\ engine' = IF _validate_weights(WeightsOrDefault(arg), KeysOrDefault(arg)) THEN "ready" ELSE "error"
  /\ UNCHANGED <<job, candidates, pc, idx, filtered_candidates, filtered_out_count,
                 scored_candidates, ranked, returned, session_status, heap>>
  /\ UNCHANGED <<matchVars, callVars, concVars, sessVars>>

\* score_candidates up to the first iteration of rank_candidates' filter loop
ScoreCandidatesCall ==
  /\ engine = "ready"
  /\ pc = "idle"
  /\ \E j \in Jobs, cs \in SeqsUpTo(Profiles, MaxBatch) :
       /\ job' = j
       /\ candidates' = cs
       /\ heap' = CallerObjects(cs)
  /\ session_status' = "scoring"
  /\ filtered_candidates' = <<>>
  /\ filtered_out_count' = 0
  /\ idx' = 1
  /\ pc' = "filter"
  /\ UNCHANGED <<weights, engine, supplied, scored_candidates, ranked, returned>>
  /\ UNCHANGED <<matchVars, callVars, concVars, sessVars>>

\* one iteration of "for candidate in candidates".  The line it prints for a
\* filtered candidate (like the count printed after the loop) is ASCII for
\* the candidates in use; every standard output encodes it.
FilterStep ==
  /\ pc = "filter"
  /\ idx <= Len(candidates)
  /\ IF FilterTable[job, candidates[idx]].should_filter
     THEN /\ filtered_out_count' = filtered_out_count + 1
          /\ UNCHANGED filtered_candidates
     ELSE /\ filtered_candidates' = Append(filtered_candidates, idx)
          /\ UNCHANGED filtered_out_count
  /\ idx' = idx + 1
  /\ UNCHANGED <<weights, engine, supplied, job, candidates, pc, scored_candidates,
                 ranked, returned, session_status, heap>>
  /\ UNCHANGED <<matchVars, callVars, concVars, sessVars>>

\* the filter loop ends; the scoring loop begins
FilterDone ==
  /\ pc = "filter"
  /\ idx > Len(candidates)
  /\ scored_candidates' = <<>>
  /\ idx' = 1
  /\ pc' = "score"
  /\ UNCHANGED <<weights, engine, supplied, job, candidates, filtered_candidates,
                 filtered_out_count, ranked, returned, session_status, heap>>
  /\ UNCHANGED <<matchVars, callVars, concVars, sessVars>>

\* A variant that ranks each candidate as soon as it is scored.
ScoreStep_RanksWhileScoring ==
  /\ pc = "score"
  /\ idx <= Len(filtered_candidates)
  /\ \E r \in ScoreTable[weights, job, candidates[filtered_candidates[idx]]] :
         IF r.raised
         THEN /\ pc' = "except"
              /\ heap' = NewObjects(heap, "ScoreComponent", ComponentsBeforeLocation)
              /\ UNCHANGED <<scored_candidates, idx, ranked>>
         ELSE /\ scored_candidates' =
                   Append(scored_candidates, <<filtered_candidates[idx], r.score>>)
              /\ ranked' = Append(ranked,
                                  RankedCandidate(filtered_candidates[idx], r.score, idx,
                                                  Percentile(idx, idx - 1)))
              /\ heap' = NewRanking(NewScore(heap, filtered_candidates[idx]),
                                    filtered_candidates[idx])
              /\ idx' = idx + 1
              /\ UNCHANGED pc
  /\ UNCHANGED <<weights, engine, supplied, job, candidates, filtered_candidates,
                 filtered_out_count, returned, session_status>>
  /\ UNCHANGED <<matchVars, callVars, concVars, sessVars>>

\* A variant that keeps the score of a profile and hands the same objects out
\* again for an equal profile later in the list.
ScoreStep_ReusesScore ==
  /\ pc = "score"
  /\ idx <= Len(filtered_candidates)
  /\ LET p == filtered_candidates[idx]
         earlier == {i \in 1..Len(scored_candidates) :
                       candidates[scored_candidates[i][1]] = candidates[p]}
     IN  IF earlier # {}
         THEN LET i == CHOOSE i \in earlier : TRUE IN
                /\ scored_candidates' = Append(scored_candidates, <<p, scored_candidates[i][2]>>)
                /\ heap' = [heap EXCEPT !.scores = (p :> @[scored_candidates[i][1]]) @@ @]
                /\ idx' = idx + 1
                /\ UNCHANGED pc
         ELSE \E r \in ScoreTable[weights, job, candidates[p]] :
                IF r.raised
                THEN /\ pc' = "except"
                     /\ heap' = NewObjects(heap, "ScoreComponent", ComponentsBeforeLocation)
                     /\ UNCHANGED <<scored_candidates, idx>>
                ELSE /\ scored_candidates' = Append(scored_candidates, <<p, r.score>>)
                     /\ heap' = NewScore(heap, p)
                     /\ idx' = idx + 1
                     /\ UNCHANGED pc
  /\ UNCHANGED <<weights, engine, supplied, job, candidates, filtered_candidates,
                 filtered_out_count, ranked, returned, session_status>>
  /\ UNCHANGED <<matchVars, callVars, concVars, sessVars>>

\* one iteration of "for candidate in filtered_candidates"; an exception of
\* score_candidate leaves rank_candidates
ScoreStep ==
  /\ pc = "score"
  /\ idx <= Len(filtered_candidates)
  /\ \E r \in ScoreTable[weights, job, candidates[filtered_candidates[idx]]] :
         IF r.raised
         THEN /\ pc' = "except"
              /\ heap' = NewObjects(heap, "ScoreComponent", ComponentsBeforeLocation)
              /\ UNCHANGED <<scored_candidates, idx>>
         ELSE /\ scored_candidates' =
                   Append(scored_candidates, <<filtered_candidates[idx], r.score>>)
              /\ heap' = NewScore(heap, filtered_candidates[idx])
              /\ idx' = idx + 1
              /\ UNCHANGED pc
  /\ UNCHANGED <<weights, engine, supplied, job, candidates, filtered_candidates,
                 filtered_out_count, ranked, returned, session_status>>
  /\ UNCHANGED <<matchVars, callVars, concVars, sessVars>>

\* the scoring loop ends; scored_candidates.sort(...)
SortStep ==
  /\ pc = "score"
  /\ idx > Len(filtered_candidates)
  /\ scored_candidates' = SortByScoreDescending(scored_candidates)
  /\ ranked' = <<>>
  /\ idx' = 1
  /\ pc' = "rank"
  /\ UNCHANGED <<weights, engine, supplied, job, candidates, filtered_candidates,
                 filtered_out_count, returned, session_status, heap>>
  /\ UNCHANGED <<matchVars, callVars, concVars, sessVars>>

\* A variant that numbers the ranks from 0.
RankStep_ZeroBased ==
  /\ pc = "rank"
  /\ idx <= Len(scored_candidates)
  /\ ranked' = Append(ranked,
                      RankedCandidate(scored_candidates[idx][1], scored_candidates[idx][2],
                                      idx - 1, Percentile(Len(scored_candidates), idx - 1)))
  /\ heap' = NewRanking(heap, scored_candidates[idx][1])
  /\ idx' = idx + 1
  /\ UNCHANGED <<weights, engine, supplied, job, candidates, pc, filtered_candidates,
                 filtered_out_count, scored_candidates, returned, session_status>>
  /\ UNCHANGED <<matchVars, callVars, concVars, sessVars>>

\* one iteration of "for i, (candidate, score) in enumerate(scored_candidates)"
RankStep ==
  /\ pc = "rank"
  /\ idx <= Len(scored_candidates)
  /\ ranked' = Append(ranked,
                      RankedCandidate(scored_candidates[idx][1], scored_candidates[idx][2],
                                      idx, Percentile(Len(scored_candidates), idx - 1)))
  /\ heap' = NewRanking(heap, scored_candidates[idx][1])
  /\ idx' = idx + 1
  /\ UNCHANGED <<weights, engine, supplied, job, candidates, pc, filtered_candidates,
                 filtered_out_count, scored_candidates, returned, session_status>>
  /\ UNCHANGED <<matchVars, callVars, concVars, sessVars>>

\* rank_candidates returns; score_candidates completes the session, prints
\* the check-marked summary line and returns.  On a standard output that
\* cannot encode the check mark, print raises inside the try, after the
\* status was set.
Return ==
  /\ pc = "rank"
  /\ idx > Len(scored_candidates)
  /\ session_status' = "completed"
  /\ \E encoding \in StdoutEncodings :
       IF PrintErrorMessage[encoding] = ""
       THEN /\ returned' = ranked
            /\ pc' = "done"
       ELSE /\ pc' = "except"
            /\ UNCHANGED returned
  /\ UNCHANGED <<weights, engine, supplied, job, candidates, idx, filtered_candidates,
                 filtered_out_count, scored_candidates, ranked, heap>>
  /\ UNCHANGED <<matchVars, callVars, concVars, sessVars>>

\* score_candidates' except clause: the session fails and the exception is re-raised
Except ==
  /\ pc = "except"
  /\ session_status' = "failed"
  /\ pc' = "raised"
  /\ UNCHANGED <<weights, engine, supplied, job, candidates, idx, filtered_candidates,
                 filtered_out_count, scored_candidates, ranked, returned, heap>>
  /\ UNCHANGED <<matchVars, callVars, concVars, sessVars>>

Next ==
  \/ Construct
  \/ ScoreCandidatesCall
  \/ FilterStep
  \/ FilterDone
  \/ ScoreStep
  \/ SortStep
  \/ RankStep
  \/ Return
  \/ Except

RankInit ==
  /\ weights = <<>>
  /\ engine = "none"
  /\ supplied = NoWeights
  /\ job = <<>>
  /\ candidates = <<>>
  /\ pc = "idle"
  /\ idx = 0
  /\ filtered_candidates = <<>>
  /\ filtered_out_count = 0
  /\ scored_candidates = <<>>
  /\ ranked = <<>>
  /\ returned = <<>>
  /\ session_status = "none"
  /\ heap = NoObjects

\* no direct call of a scoring function has been made
CallInit ==
  /\ f_pc = "idle"
  /\ f_call = <<>>
  /\ f_result = <<>>

\* the score_candidate calls that run side by side
Calls == {1, 2}

\* no score_candidate call is running; the vectorizer is not fitted
ConcInit ==
  /\ c_job = <<>>
  /\ c_cand = [call \in Calls |-> <<>>]
  /\ c_pc = [call \in Calls |-> "idle"]
  /\ c_fit = 0
  /\ c_out = [call \in Calls |-> 0]
  /\ c_result = [call \in Calls |-> <<>>]

\* LinkedInCandidateSystem.__init__: no session yet
SessInit ==
  /\ sessions = <<>>
  /\ p_pc = "idle"
  /\ p_args = <<>>
  /\ p_session_id = 0
  /\ p_exception = ""
  /\ p_out = 0
  /\ uuids = 0

Init == RankInit /\ MatchInit /\ CallInit /\ ConcInit /\ SessInit

SpecLoc == Init /\ [][NextMatch]_vars

Spec == Init /\ [][Next]_vars

(***************************************************************************)
(* Direct calls of single scoring functions, on an engine with the default *)
(* weights.                                                                *)
(***************************************************************************)
\* one call: the function's name, its arguments, and what it returned
CallWith(fn, args, result) ==
  /\ f_pc = "idle"
  /\ f_pc' = "done"
  /\ f_call' = [fn |-> fn, args |-> args]
  /\ f_result' = result
  /\ UNCHANGED <<rankVars, matchVars, concVars, sessVars>>

MaxSkills == 2

\* skill names of job requirements and of candidate profiles
RequiredSkillNames == {"Python", "python", "react", "java"}
PreferredSkillLists == {<<>>, <<"Django">>, <<"AWS", "django">>}
CandidateSkillLists ==
  {<<>>, <<"python">>, <<"JavaScript">>, <<"python", "JavaScript">>, <<"aws", "python">>,
   <<"JavaScript", "aws">>}
SkillExperiences ==
  {<<>>, <<Experience("Developer", "Webly", NoDate, NoDate, FALSE, "Built Django APIs on AWS")>>}

\* a job and a candidate that carry skills and experience entries only
SkillJob(required_skills, preferred_skills) ==
  ParsedJobDescription(required_skills, preferred_skills, NoExperienceRequirement,
                       NoEducationRequirement, NoLocationRequirement, <<>>, "")
SkillCandidate(skills, experiences) ==
  CandidateProfile("candidate", "", "", "", experiences, <<>>, skills, <<>>, <<>>, 0)

ScoreSkillsWith(j, c) ==
  \E result \in _score_skills(DEFAULT_WEIGHTS, j, c) :
    CallWith("_score_skills", [job |-> j, candidate |-> c], result)

\* engine._score_skills(job, candidate)
ScoreSkillsCall ==
  /\ f_pc = "idle"
  /\ \E required_skills \in SeqsUpTo(RequiredSkillNames, MaxSkills),
        preferred_skills \in PreferredSkillLists,
        skills \in CandidateSkillLists,
        experiences \in SkillExperiences :
       ScoreSkillsWith(SkillJob(required_skills, preferred_skills),
                       SkillCandidate(skills, experiences))

MaxTenureYears == 9

\* job.experience: none, a minimum only, a range, and 0 to 0 years
ExperienceRequirements ==
  {NoExperienceRequirement, ExperienceRequirement(0, -1), ExperienceRequirement(5, -1),
   ExperienceRequirement(7, -1), ExperienceRequirement(1, 2), ExperienceRequirement(5, 5),
   ExperienceRequirement(0, 0)}

\* candidate.experiences: no entry, or one past position that ended in January 2025
TenureExperiences ==
  {<<>>} \cup
  {<<Experience("Developer", "Webly", <<2025 - y, m, 1>>, <<2025, 1, 1>>, FALSE, "Work")>>
     : y \in 0..MaxTenureYears, m \in {1, 7}}

ExperienceJob(experience) ==
  ParsedJobDescription(<<>>, <<>>, experience, NoEducationRequirement,
                       NoLocationRequirement, <<>>, "")

ScoreExperienceWith(j, c) ==
  CallWith("_score_experience", [job |-> j, candidate |-> c],
           _score_experience(DEFAULT_WEIGHTS, j, c))

\* engine._score_experience(job, candidate)
ScoreExperienceCall ==
  /\ f_pc = "idle"
  /\ \E experience \in ExperienceRequirements, experiences \in TenureExperiences :
       ScoreExperienceWith(ExperienceJob(experience), SkillCandidate(<<>>, experiences))

\* weights with a location weight above the cap of 0.5
location_dominant_weights ==
  [skill_match |-> Rat(10, 100), experience_match |-> Rat(10, 100),
   education_match |-> Rat(5, 100), industry_match |-> Rat(5, 100),
   location_match |-> Rat(60, 100), career_trajectory |-> Rat(5, 100),
   keyword_density |-> Rat(5, 100)]

EngineWeights == {DEFAULT_WEIGHTS, location_critical_weights, location_dominant_weights}

LocationWeightMultipliers == {R(0), Rat(1, 4), R(1), Rat(3, 2), R(2), R(6)}

\* the location requirements of the jobs _score_location is called with
CallLocations ==
  {LocationRequirement(cities, states, <<>>, remote, hybrid, d, FALSE, m) :
     cities \in {<<>>, <<"San Francisco">>, <<"Seattle">>},
     states \in {<<>>, <<"CA">>},
     remote \in BOOLEAN, hybrid \in BOOLEAN, d \in MaxDistances,
     m \in LocationWeightMultipliers}

LocationJob(location) ==
  ParsedJobDescription(<<>>, <<>>, NoExperienceRequirement, NoEducationRequirement,
                       location, <<>>, "")

LocationCandidate(location) ==
  CandidateProfile("candidate", "", location, "", <<>>, <<>>, <<>>, <<>>, <<>>, 0)

ScoreLocationWith(w, j, c) ==
  CallWith("_score_location", [weights |-> w, job |-> j, candidate |-> c], _score_location(w, j, c))

\* engine._score_location(job, candidate), for an engine built with weights w
ScoreLocationCall ==
  /\ f_pc = "idle"
  /\ \E w \in EngineWeights, location \in CallLocations \cup {NoLocationRequirement},
        cand \in CandidateLocations :
       ScoreLocationWith(w, LocationJob(location), LocationCandidate(cand))

MaxPositions == 3

\* candidate.experiences, most recent first: positions with two titles over
\* two periods, the later one current
TrajectoryPositions ==
  {Experience(title, "Webly", period[1], period[2], period[2] = NoDate, "Work") :
     title \in {"Engineer", "Senior Engineering Manager"},
     period \in {<<<<2016, 3, 1>>, <<2018, 6, 1>>>>, <<<<2019, 4, 1>>, NoDate>>}}

ScoreTrajectoryWith(j, c) ==
  CallWith("_score_career_trajectory", [job |-> j, candidate |-> c], _score_career_trajectory(DEFAULT_WEIGHTS, j, c))

\* engine._score_career_trajectory(job, candidate)
ScoreTrajectoryCall ==
  /\ f_pc = "idle"
  /\ \E experiences \in SeqsUpTo(TrajectoryPositions, MaxPositions) :
       ScoreTrajectoryWith(ExperienceJob(NoExperienceRequirement), SkillCandidate(<<>>, experiences))

MaxDegrees == 2

\* job.education: every level, with and without fields, required or preferred
EducationRequirements ==
  {EducationRequirement(level, fields, required) :
     level \in {"high_school", "associate", "bachelor", "master", "phd", "professional"},
     fields \in {<<>>, <<"Computer Science", "Mathematics">>},
     required \in BOOLEAN}

\* candidate.education entries: three detectable degrees and one without a
\* level keyword, two in a matching and two in another field
EducationEntries ==
  {Education(entry[1], entry[2], "State University") :
     entry \in {<<"Associate Degree", "Physics">>, <<"Bachelor of Science", "Computer Science">>,
                <<"PhD", "Physics">>, <<"Diploma", "Computer Science">>}}

EducationJob(education) ==
  ParsedJobDescription(<<>>, <<>>, NoExperienceRequirement, education,
                       NoLocationRequirement, <<>>, "")

EducationCandidate(education) ==
  CandidateProfile("candidate", "", "", "", <<>>, education, <<>>, <<>>, <<>>, 0)

ScoreEducationWith(j, c) ==
  CallWith("_score_education", [job |-> j, candidate |-> c], _score_education(DEFAULT_WEIGHTS, j, c))

\* engine._score_education(job, candidate)
ScoreEducationCall ==
  /\ f_pc = "idle"
  /\ \E requirement \in EducationRequirements \cup {NoEducationRequirement},
        education \in SeqsUpTo(EducationEntries, MaxDegrees) :
       ScoreEducationWith(EducationJob(requirement), EducationCandidate(education))

\* job.required_skills: the leading skills of a list of six
RequiredSkillPool == <<"Python", "React", "Java", "Go", "Rust", "SQL">>
RequiredSkillLists == {SubSeq(RequiredSkillPool, 1, n) : n \in 0..Len(RequiredSkillPool)}

\* the jobs and candidates _identify_missing_requirements is called with
MissingJobs ==
  {ParsedJobDescription(required_skills, <<>>, experience, education,
                        NoLocationRequirement, <<>>, "") :
     required_skills \in RequiredSkillLists,
     experience \in {NoExperienceRequirement, ExperienceRequirement(5, -1)},
     education \in {NoEducationRequirement,
                    EducationRequirement("bachelor", <<>>, TRUE),
                    EducationRequirement("bachelor", <<>>, FALSE)}}

MissingCandidates ==
  {CandidateProfile("candidate", "", "", "", experiences, education, skills, <<>>, <<>>, 0) :
     experiences \in {<<>>, <<Experience("Developer", "Webly", <<2022, 1, 1>>, <<2025, 1, 1>>, FALSE, "Work")>>,
                      <<Experience("Developer", "Webly", <<2015, 1, 1>>, <<2025, 1, 1>>, FALSE, "Work")>>},
     education \in {<<>>, <<Education("Bachelor of Science", "Physics", "State University")>>},
     skills \in {<<>>, <<"python">>, <<"REACT", "sql">>}}

IdentifyMissingWith(j, c) ==
  CallWith("_identify_missing_requirements", [job |-> j, candidate |-> c], _identify_missing_requirements(j, c))

\* engine._identify_missing_requirements(job, candidate)
IdentifyMissingCall ==
  /\ f_pc = "idle"
  /\ \E j \in MissingJobs, c \in MissingCandidates : IdentifyMissingWith(j, c)

\* strict location requirements, with and without a radius
StrictLocations ==
  {LocationRequirement(cities, states, <<>>, remote, hybrid, d, TRUE, R(1)) :
     cities \in {<<"San Francisco">>, <<"Seattle">>, <<"Seattle", "San Francisco">>},
     states \in {<<>>, <<"CA">>},
     remote \in BOOLEAN, hybrid \in BOOLEAN, d \in MaxDistances}

ShouldFilterWith(j, c) ==
  CallWith("should_filter_candidate", [job |-> j, candidate |-> c], should_filter_candidate(j, c))

\* engine.should_filter_candidate(job, candidate)
ShouldFilterCall ==
  /\ f_pc = "idle"
  /\ \E location \in StrictLocations, cand \in CandidateLocations :
       ShouldFilterWith(LocationJob(location), LocationCandidate(cand))

\* end dates of the last position: the 15th of each month from June 2022 to
\* June 2025
RecencyEndDates ==
  {<<y, m, 15>> : y \in {2022, 2023, 2024, 2025}, m \in 1..12}
    \ ({<<2022, m, 15>> : m \in 1..5} \cup {<<2025, m, 15>> : m \in 7..12})

\* a candidate whose only position ended on end_date
EndedCandidate(end_date) ==
  SkillCandidate(<<>>, <<Experience("Developer", "Webly", <<2020, 1, 1>>, end_date, FALSE, "Work")>>)

RecencyWith(c) ==
  CallWith("_calculate_experience_recency", [candidate |-> c], _calculate_experience_recency(c))

\* engine._calculate_experience_recency(candidate)
RecencyCall ==
  /\ f_pc = "idle"
  /\ \E end_date \in RecencyEndDates : RecencyWith(EndedCandidate(end_date))

\* the gazetteer entries whose coordinates calculate_distance is called with
DistanceLocations ==
  {us_and_international_cities[k] : k \in {i \in 1..NumCities : <<us_and_international_cities[i].city, us_and_international_cities[i].city>> \in DOMAIN DistanceTable}}

\* location_service.calculate_distance(coord1, coord2)
CalculateDistanceCall ==
  /\ f_pc = "idle"
  /\ \E coord1 \in DistanceLocations, coord2 \in DistanceLocations :
       CallWith("calculate_distance", [coord1 |-> coord1, coord2 |-> coord2], calculate_distance(coord1, coord2))

NextCalls ==
  \/ ScoreSkillsCall
  \/ ScoreExperienceCall
  \/ CalculateDistanceCall
  \/ ScoreLocationCall
  \/ ScoreTrajectoryCall
  \/ ScoreEducationCall
  \/ IdentifyMissingCall
  \/ ShouldFilterCall
  \/ RecencyCall

SpecCalls == Init /\ [][NextCalls]_vars

(***************************************************************************)
(* score_candidate calls running side by side on one engine (default       *)
(* weights).  The engine's TfidfVectorizer is the one object the calls     *)
(* write: fit_transform first fits it to the texts of the call and then    *)
(* transforms these texts with what it holds.                              *)
(***************************************************************************)
ConcJobs == {j \in Jobs : ~j.location.present}
ConcProfiles == {ana, bo, cy, di}

\* _calculate_experience_relevance reaches fit_transform (lines 583-594)
UsesVectorizer(j, c) ==
  /\ Len(c.experiences) > 0
  /\ Join([i \in 1..Len(c.experiences) |-> c.experiences[i].description], " ") # ""
  /\ j.job_description_text # ""

\* What transform gives a call: the similarity of its own texts when the
\* vectorizer still holds the fit of this call; after another call refitted
\* it, the result is that of a vectorizer in a mixed state: it may still be
\* the right one, or the library raises.
TransformOutcomes(call, fitted_by, c) ==
  IF fitted_by = call THEN {c.tfidf} ELSE {c.tfidf, -1}

\* the calls are made: one job, a different candidate for each call
ConcCall ==
  /\ \A call \in Calls : c_pc[call] = "idle"
  /\ \E j \in ConcJobs, cs \in [Calls -> ConcProfiles] :
       /\ \A a \in Calls, b \in Calls : a # b => cs[a] # cs[b]
       /\ c_job' = j
       /\ c_cand' = cs
  /\ c_pc' = [call \in Calls |-> "called"]
  /\ UNCHANGED <<c_fit, c_out, c_result>>
  /\ UNCHANGED <<rankVars, matchVars, callVars, sessVars>>

\* a call runs up to fit_transform, or past it when the texts are empty
ConcBegin(call) ==
  /\ c_pc[call] = "called"
  /\ c_pc' = [c_pc EXCEPT ![call] = IF UsesVectorizer(c_job, c_cand[call])
                                    THEN "fit" ELSE "combine"]
  /\ c_out' = [c_out EXCEPT ![call] = c_cand[call].tfidf]
  /\ UNCHANGED <<c_job, c_cand, c_fit, c_result>>
  /\ UNCHANGED <<rankVars, matchVars, callVars, sessVars>>

\* fit_transform, first half: the vectorizer is fitted to the call's texts
ConcFit(call) ==
  /\ c_pc[call] = "fit"
  /\ c_fit' = call
  /\ c_pc' = [c_pc EXCEPT ![call] = "transform"]
  /\ UNCHANGED <<c_job, c_cand, c_out, c_result>>
  /\ UNCHANGED <<rankVars, matchVars, callVars, sessVars>>

\* fit_transform, second half: the texts are transformed with what the vectorizer holds
ConcTransform(call) ==
  /\ c_pc[call] = "transform"
  /\ \E outcome \in TransformOutcomes(call, c_fit, c_cand[call]) :
       c_out' = [c_out EXCEPT ![call] = outcome]
  /\ c_pc' = [c_pc EXCEPT ![call] = "combine"]
  /\ UNCHANGED <<c_job, c_cand, c_fit, c_result>>
  /\ UNCHANGED <<rankVars, matchVars, callVars, sessVars>>

\* the rest of score_candidate, with the similarity the vectorizer gave
ConcFinish(call) ==
  /\ c_pc[call] = "combine"
  /\ \E outcome \in score_candidate(DEFAULT_WEIGHTS, c_job,
                                     [c_cand[call] EXCEPT !.tfidf = c_out[call]]) :
       c_result' = [c_result EXCEPT ![call] = outcome]
  /\ c_pc' = [c_pc EXCEPT ![call] = "done"]
  /\ UNCHANGED <<c_job, c_cand, c_fit, c_out>>
  /\ UNCHANGED <<rankVars, matchVars, callVars, sessVars>>

NextConc ==
  \/ ConcCall
  \/ \E call \in Calls : ConcBegin(call)
  \/ \E call \in Calls : ConcFit(call)
  \/ \E call \in Calls : ConcTransform(call)
  \/ \E call \in Calls : ConcFinish(call)

SpecConc == Init /\ [][NextConc]_vars


(***************************************************************************)
(* LinkedInCandidateSystem.process_job_description (main.py).              *)
(***************************************************************************)

\* the calls of process_job_description one system object receives
MaxCalls == 3

\* the names bound in main.py's module namespace by its imports
MainModuleNames == {"ParsedJobDescription", "CandidateProfile", "SearchSession", "RankedCandidate", "Experience", "Education", "JobDescriptionParser", "LinkedInFilterGenerator", "ScoringEngine"}

\* job_text arguments: None (not a string) and strings
JobTexts == {[is_str |-> FALSE, text |-> ""], [is_str |-> TRUE, text |-> ""], [is_str |-> TRUE, text |-> "   "], [is_str |-> TRUE, text |-> "Senior Python engineer"]}

\* company_name arguments ("" stands for None)
CompanyNames == {"", "Acme"}

\* JobDescriptionParser.parse raises on a job_text that is not a string
ParseRaises(job_text) == ~job_text.is_str

\* str(e) of the AttributeError parse raises on None
ParseErrorMessage == "'NoneType' object has no attribute 'split'"

\* the SearchSession of the success path
ReadySession(session_id, job_text, company_name) == [session_id |-> session_id, job_description_id |-> session_id, job_description_text |-> job_text.text, company_name |-> company_name, status |-> "ready_for_search", error_message |-> ""]

\* the SearchSession of the except branch
FailedSession(session_id, job_text, message) == [session_id |-> session_id, job_description_id |-> session_id, job_description_text |-> job_text.text, company_name |-> "", status |-> "failed", error_message |-> message]

\* self.sessions[session_id] = session
StoreSession(session) == [id \in DOMAIN sessions \cup {session.session_id} |-> IF id = session.session_id THEN session ELSE sessions[id]]

\* process_job_description is called; session_id = str(uuid.uuid4())
ProcessCall ==
  /\ p_pc \in {"idle", "returned", "raised"}
  /\ uuids < MaxCalls
  /\ \E job_text \in JobTexts, company_name \in CompanyNames :
       p_args' = [job_text |-> job_text, company_name |-> company_name]
  /\ uuids' = uuids + 1
  /\ p_session_id' = uuids + 1
  /\ p_pc' = "try"
  /\ p_exception' = ""
  /\ p_out' = 0
  /\ UNCHANGED sessions
  /\ UNCHANGED <<rankVars, matchVars, callVars, concVars>>

\* the try body: parse, generate filters, store the session, print the four
\* check-marked lines, return the id.  On a standard output that cannot
\* encode the check mark the first print raises, after the session was stored.
ProcessTry ==
  /\ p_pc = "try"
  /\ IF ParseRaises(p_args.job_text)
       THEN /\ p_pc' = "except"
            /\ p_exception' = ParseErrorMessage
            /\ UNCHANGED <<sessions, p_out>>
       ELSE /\ sessions' = StoreSession(ReadySession(p_session_id, p_args.job_text, p_args.company_name))
            /\ \E encoding \in StdoutEncodings :
                 IF PrintErrorMessage[encoding] = ""
                 THEN /\ p_out' = p_session_id
                      /\ p_pc' = "returned"
                      /\ UNCHANGED p_exception
                 ELSE /\ p_pc' = "except"
                      /\ p_exception' = PrintErrorMessage[encoding]
                      /\ UNCHANGED p_out
  /\ UNCHANGED <<p_args, p_session_id, uuids>>
  /\ UNCHANGED <<rankVars, matchVars, callVars, concVars>>

\* the except branch: building the failed session looks up
\* LinkedInSearchFilters, which raises NameError when the name is unbound
ProcessExcept ==
  /\ p_pc = "except"
  /\ IF "LinkedInSearchFilters" \in MainModuleNames
       THEN /\ sessions' = StoreSession(FailedSession(p_session_id, p_args.job_text, p_exception))
            /\ p_exception' = "Failed to process job description"
       ELSE /\ p_exception' = "NameError"
            /\ UNCHANGED sessions
  /\ p_pc' = "raised"
  /\ UNCHANGED <<p_args, p_session_id, p_out, uuids>>
  /\ UNCHANGED <<rankVars, matchVars, callVars, concVars>>

NextSessions ==
  \/ ProcessCall
  \/ ProcessTry
  \/ ProcessExcept

SpecSessions == Init /\ [][NextSessions]_vars

(***************************************************************************)
(* Properties of match_location (checked under SpecLoc).                   *)
(***************************************************************************)
\* candidate_loc_data of the call: what match_location resolves the candidate to.
ResolvedCandidate(a) == IF a.cand = "" THEN 0 ELSE ParsedLocations[Strip(a.cand)]

SameCityState(ci, ri) ==
  /\ ci # 0
  /\ ri # 0
  /\ Lower(us_and_international_cities[ci].city) = Lower(us_and_international_cities[ri].city)
  /\ Lower(us_and_international_cities[ci].state) = Lower(us_and_international_cities[ri].state)

HasExactEntry(a) ==
  \E i \in 1..Len(a.reqs) : SameCityState(ResolvedCandidate(a), ParsedLocations[a.reqs[i]])

\* C6: a resolved, non-remote candidate with some required entry resolving to
\* its own city and state gets confidence 100, wherever that entry stands in
\* the list and whatever the other entries are.
C6_ExactCityAlways100 ==
  (/\ m_pc = "done"
   /\ ~HasRemoteKeyword(m_in.cand)
   /\ ResolvedCandidate(m_in) # 0
   /\ HasExactEntry(m_in))
  => m_result.confidence = R(100)

C6_Witness ==
  /\ m_pc = "done"
  /\ ~HasRemoteKeyword(m_in.cand)
  /\ ResolvedCandidate(m_in) # 0
  /\ Len(m_in.reqs) = 2
  /\ ParsedLocations[m_in.reqs[1]] # 0
  /\ ~SameCityState(ResolvedCandidate(m_in), ParsedLocations[m_in.reqs[1]])
  /\ SameCityState(ResolvedCandidate(m_in), ParsedLocations[m_in.reqs[2]])
  /\ m_result.match_type = "exact_city"
  /\ m_result.confidence = R(100)

\* C7: a candidate location containing a remote keyword gives REMOTE/100 when
\* remote_allowed and NO_MATCH/20 otherwise, whatever the required list, the
\* hybrid flag and the radius are.
C7_RemoteCandidate ==
  (m_pc = "done" /\ HasRemoteKeyword(m_in.cand))
  => /\ m_result.match_type = (IF m_in.remote_allowed THEN "remote" ELSE "no_match")
     /\ m_result.confidence = (IF m_in.remote_allowed THEN R(100) ELSE R(20))

C7_Witness ==
  /\ m_pc = "done"
  /\ HasRemoteKeyword(m_in.cand)
  /\ ParsedLocations[Strip(m_in.cand)] # 0
  /\ ~m_in.remote_allowed
  /\ m_in.hybrid_allowed
  /\ m_in.max_distance_miles # 0
  /\ Len(m_in.reqs) > 0
  /\ m_result.match_type = "no_match"
  /\ m_result.confidence = R(20)

(***************************************************************************)
(* Properties of scoring and ranking (checked under Spec).                 *)
(***************************************************************************)
InRange(x) == RLeq(R(0), x) /\ RLeq(x, R(100))

\* the position in the returned list of the candidate at position p of the input
Returned(p) == {i \in 1..Len(returned) : returned[i].profile = p}

\* C1: every score computed by score_candidate has seven components with
\* raw_score in [0,100] and an overall_score in [0,100].
C1_ScoresInRange ==
  \A i \in 1..Len(scored_candidates) :
    LET score == scored_candidates[i][2] IN
      /\ Len(score.components) = 7
      /\ \A k \in 1..Len(score.components) : InRange(score.components[k].raw_score)
      /\ InRange(score.overall_score)

\* C2: under strict location filtering, every candidate that rank_candidates
\* returns has a match of an acceptable type (exact city, metro area, within
\* radius, remote) with confidence at least 60.
C2_StrictFilterOutput ==
  (pc = "done" /\ job.location.present /\ job.location.strict_location_filter)
  => \A i \in 1..Len(returned) :
       LET location_match == JobLocationMatch(job, candidates[returned[i].profile]) IN
         /\ location_match.match_type \in {"exact_city", "metro_area", "within_radius", "remote"}
         /\ RLeq(R(60), location_match.confidence)

\* a candidate left out although its confidence is 60 or more, next to one kept
C2_Witness ==
  /\ pc = "done"
  /\ job.location.present /\ job.location.strict_location_filter
  /\ Len(returned) = 1
  /\ \E p \in 1..Len(candidates) :
       /\ Returned(p) = {}
       /\ JobLocationMatch(job, candidates[p]).match_type = "state_match"
       /\ JobLocationMatch(job, candidates[p]).confidence = R(70)

\* C3: the returned list is non-increasing in overall score, and candidates
\* with equal overall scores keep the order they had in the input list.
C3_SortedAndStable ==
  pc = "done"
  => \A i \in 1..Len(returned), k \in 1..Len(returned) :
       i < k =>
         /\ RLeq(returned[k].score.overall_score, returned[i].score.overall_score)
         /\ (returned[k].score.overall_score = returned[i].score.overall_score
             => returned[i].profile < returned[k].profile)

\* two different candidates with the same overall score
C3_Witness ==
  /\ pc = "done"
  /\ Len(returned) = 2
  /\ returned[1].score.overall_score = returned[2].score.overall_score
  /\ returned[1].score.candidate_id # returned[2].score.candidate_id
  /\ returned[1].profile = 1

\* C4: with total the number of candidates that survived the pre-filter, the
\* candidate at 1-based sorted position i has percentile (total - i) / total
\* * 100 when total > 1, and a lone survivor has percentile 100.
C4_Percentile ==
  pc = "done"
  => LET total == Len(returned) IN
       /\ total = Len(candidates) - filtered_out_count
       /\ \A i \in 1..total :
            /\ returned[i].rank = i
            /\ (total > 1 => returned[i].percentile = RMul(Rat(total - i, total), R(100)))
            /\ (total = 1 => returned[i].percentile = R(100))

C4_Witness ==
  /\ pc = "done"
  /\ Len(returned) = 2
  /\ returned[1].percentile = R(50)
  /\ returned[2].percentile = R(0)

\* the [0.99, 1.01] test on the values of the map supplied to the constructor
SuppliedSumAccepted ==
  /\ RLeq(Rat(99, 100), SumOver(supplied.map, supplied.keys))
  /\ RLeq(SumOver(supplied.map, supplied.keys), Rat(101, 100))

\* the engine's weights are the supplied map
UsesSuppliedWeights ==
  /\ DOMAIN weights = DOMAIN supplied.map
  /\ \A k \in DOMAIN supplied.map : weights[k] = supplied.map[k]

\* C5: construction with a supplied map succeeds exactly when the map's values
\* sum to a number in [0.99, 1.01], and then the engine uses the supplied map.
C5_ConstructionIffSumAccepted ==
  (engine # "none" /\ supplied.given)
  => /\ (engine = "ready") <=> SuppliedSumAccepted
     /\ (engine = "ready") => UsesSuppliedWeights

\* score_candidate can raise on the pair, and the scores it can return
Raises(w, j, c) == \E outcome \in ScoreTable[w, j, c] : outcome.raised
ScoresOf(w, j, c) == {outcome.score : outcome \in {o \in ScoreTable[w, j, c] : ~o.raised}}

\* the candidate's location has no remote keyword and parse_location finds nothing
Unresolvable(c) == ~HasRemoteKeyword(c.location) /\ ParsedLocations[c.location] = 0

\* the candidate at position p is in rank_candidates' ranked list with a
\* location component that reports NO_MATCH with this confidence
RankedAsNoMatch(p, confidence) ==
  \E i \in 1..Len(ranked) :
    /\ ranked[i].profile = p
    /\ ranked[i].score.components[5].details.match_type = "no_match"
    /\ ranked[i].score.components[5].details.match_confidence = confidence

\* the call has left rank_candidates: it returned, or it is in or past the
\* except clause of score_candidates
CallEnded == pc \in {"done", "except", "raised"}

\* C8 as stated: every unresolvable candidate location, the empty text
\* included, gives NO_MATCH with confidence 10, and the candidate is still
\* scored and ranked by rank_candidates unless strict filtering is on.
C8_UnresolvableIsTen ==
  (CallEnded /\ job.location.present)
  => \A p \in 1..Len(candidates) :
       Unresolvable(candidates[p]) =>
         /\ JobLocationMatch(job, candidates[p]).match_type = "no_match"
         /\ JobLocationMatch(job, candidates[p]).confidence = R(10)
         /\ (~job.location.strict_location_filter => RankedAsNoMatch(p, R(10)))

\* C8: an unresolvable candidate location gives NO_MATCH, with confidence 10
\* for a text that is not empty and confidence 0 for the empty text.  With
\* strict filtering off the pre-filter keeps the candidate, and
\* score_candidate raises on it exactly when the job's
\* location_weight_multiplier is 0: then the call ends with nobody ranked
\* and nothing returned; otherwise rank_candidates ranks the candidate with
\* that match, and a call that returns returns that list.
C8_UnresolvableTenOrZero ==
  (pc # "idle" /\ job.location.present)
  => \A p \in 1..Len(candidates) :
       Unresolvable(candidates[p]) =>
         LET confidence == IF candidates[p].location = "" THEN R(0) ELSE R(10)
             divides_by_zero == job.location.location_weight_multiplier = R(0)
         IN
           /\ JobLocationMatch(job, candidates[p]).match_type = "no_match"
           /\ JobLocationMatch(job, candidates[p]).confidence = confidence
           /\ ~job.location.strict_location_filter =>
                /\ ~FilterTable[job, candidates[p]].should_filter
                /\ (pc # "filter" \/ idx > p) => \E k \in 1..Len(filtered_candidates) : filtered_candidates[k] = p
                /\ Raises(weights, job, candidates[p]) <=> divides_by_zero
                /\ (CallEnded /\ divides_by_zero)
                     => (pc # "done" /\ ranked = <<>> /\ returned = <<>>)
                /\ (CallEnded /\ ~divides_by_zero) => RankedAsNoMatch(p, confidence)
                /\ pc = "done" => returned = ranked

\* an unparseable text and the empty text ranked side by side
C8_Witness ==
  /\ pc = "done"
  /\ job.location.present /\ ~job.location.strict_location_filter
  /\ Len(candidates) = 2
  /\ candidates[1].location = "Mars" /\ RankedAsNoMatch(1, R(10))
  /\ candidates[2].location = "" /\ RankedAsNoMatch(2, R(0))

\* C9: when the call has ended, every candidate that the pre-filter keeps and
\* score_candidate can score is in the ranked output, whatever happened to
\* the other candidates of the batch.
C9_FailureIsolated ==
  pc \in {"done", "raised"}
  => \A p \in 1..Len(candidates) :
       (/\ ~FilterTable[job, candidates[p]].should_filter
        /\ ~Raises(weights, job, candidates[p]))
       => Returned(p) # {}

\* C10: a job without an education, industry or location requirement gets
\* the corresponding component with raw score 100, weighted score 100 times
\* the base weight and the 'no_requirement' status, and with an absent location
\* requirement score_candidate raises for no candidate of the batch.
NoRequirementComponent(component, key) ==
  /\ component.name = key
  /\ component.raw_score = R(100)
  /\ component.weight = weights[key]
  /\ component.weighted_score = RMul(R(100), weights[key])
  /\ DOMAIN component.details = {"status"}
  /\ component.details.status = "no_requirement"

C10_NoRequirementDefaults ==
  pc # "idle"
  => /\ \A i \in 1..Len(scored_candidates) :
          LET components == scored_candidates[i][2].components IN
            /\ ~job.education.present => NoRequirementComponent(components[3], "education_match")
            /\ Len(job.industry_experience) = 0
                 => NoRequirementComponent(components[4], "industry_match")
            /\ ~job.location.present => NoRequirementComponent(components[5], "location_match")
     /\ ~job.location.present
          => \A p \in 1..Len(candidates) : ~Raises(weights, job, candidates[p])

C10_Witness ==
  /\ pc = "done"
  /\ ~job.education.present
  /\ Len(job.industry_experience) = 0
  /\ ~job.location.present
  /\ Len(returned) = 2
  /\ \A i \in 1..2 : \A k \in 3..5 :
       returned[i].score.components[k].details.status = "no_requirement"

\* the relevance sub-score reported for the i-th scored candidate
RelevanceOf(i) == scored_candidates[i][2].components[2].details.relevance_score

\* every description of the candidate's experience entries is empty (vacuously
\* so for a candidate without entries)
NoDescriptionText(c) == \A k \in 1..Len(c.experiences) : c.experiences[k].description = ""

\* the relevance computation has nothing to compare or the similarity fails
NeutralCase(c) == job.job_description_text = "" \/ NoDescriptionText(c) \/ c.tfidf < 0

\* C11 as stated: the relevance sub-score is 50 whenever an input is empty, a
\* candidate without experience entries included, or the similarity fails.
C11_NeutralAlwaysFifty ==
  \A i \in 1..Len(scored_candidates) :
    NeutralCase(candidates[scored_candidates[i][1]]) => RelevanceOf(i) = R(50)

\* C11: the relevance sub-score is 0 for a candidate without experience
\* entries; for a candidate with entries it is 50 when the job text is empty,
\* every description is empty or the similarity computation fails; and a
\* failing similarity computation never makes score_candidate raise.
C11_NeutralFiftyOrZero ==
  /\ \A i \in 1..Len(scored_candidates) :
       LET c == candidates[scored_candidates[i][1]] IN
         /\ Len(c.experiences) = 0 => RelevanceOf(i) = R(0)
         /\ (Len(c.experiences) > 0 /\ NeutralCase(c)) => RelevanceOf(i) = R(50)
  /\ pc \notin {"idle"} =>
       \A p \in 1..Len(candidates) :
         (candidates[p].tfidf < 0 /\ Raises(weights, job, candidates[p]))
         => _score_location(weights, job, candidates[p]).raised

\* a failing similarity and an empty description, both scored 50, side by side
C11_Witness ==
  /\ pc = "done"
  /\ Len(returned) = 2
  /\ job.job_description_text # ""
  /\ \E i \in 1..2 : /\ candidates[returned[i].profile].tfidf < 0
                     /\ returned[i].score.components[2].details.relevance_score = R(50)
  /\ \E i \in 1..2 : /\ Len(candidates[returned[i].profile].experiences) = 1
                     /\ candidates[returned[i].profile].experiences[1].description = ""
                     /\ returned[i].score.components[2].details.relevance_score = R(50)

\* the sum of the weighted scores of a score's components, in list order
SumOfWeighted(score) ==
  RSumTo([k \in 1..Len(score.components) |-> score.components[k].weighted_score],
         Len(score.components))

\* the sum of the weights the components of a score carry
SumOfWeights(score) ==
  RSumTo([k \in 1..Len(score.components) |-> score.components[k].weight],
         Len(score.components))

\* C12: the overall score is min(100, sum of the weighted scores); every
\* weighted score is raw score times weight; and every component but the
\* location component carries its base weight, whatever the location
\* multiplier does to the location weight.
C12_Aggregation ==
  \A i \in 1..Len(scored_candidates) :
    LET score == scored_candidates[i][2] IN
      /\ score.overall_score = RMin(R(100), SumOfWeighted(score))
      /\ \A k \in 1..Len(score.components) :
           /\ score.components[k].weighted_score
                = RMul(score.components[k].raw_score, score.components[k].weight)
           /\ k # 5 => score.components[k].weight = weights[score.components[k].name]

\* a returned score whose weights sum to more than 1 and whose sum of weighted
\* scores is capped
C12_Witness ==
  /\ pc = "done"
  /\ \E i \in 1..Len(returned) :
       /\ RLt(R(1), SumOfWeights(returned[i].score))
       /\ RLt(R(100), SumOfWeighted(returned[i].score))
       /\ returned[i].score.overall_score = R(100)

\* the two resolved locations are in the same, named metro area
SameMetro(ci, ri) ==
  /\ ci # 0
  /\ ri # 0
  /\ us_and_international_cities[ci].metro_area # ""
  /\ us_and_international_cities[ci].metro_area = us_and_international_cities[ri].metro_area

\* some entry of the required list is the word "remote" and the call honours it
HasHonouredRemoteEntry(a) ==
  a.remote_allowed /\ \E i \in 1..Len(a.reqs) : Lower(a.reqs[i]) = "remote"

\* the case of C15: a resolved, non-remote candidate, an entry in its metro
\* area, no entry for its own city, and no radius
MetroCase(a) ==
  /\ ~HasRemoteKeyword(a.cand)
  /\ ResolvedCandidate(a) # 0
  /\ \E i \in 1..Len(a.reqs) : SameMetro(ResolvedCandidate(a), ParsedLocations[a.reqs[i]])
  /\ ~HasExactEntry(a)
  /\ a.max_distance_miles = 0

\* C15 as stated: in the metro case the match is METRO_AREA with confidence
\* 90, whatever the other arguments and entries are.
C15_MetroAlways90 ==
  (m_pc = "done" /\ MetroCase(m_in))
  => m_result.match_type = "metro_area" /\ m_result.confidence = R(90)

\* C15: in the metro case, when no 'remote' entry is honoured, the match is
\* METRO_AREA with confidence 90, for either value of hybrid_allowed and
\* wherever the metro entry stands in the list.
C15_MetroUnlessRemoteEntry ==
  (m_pc = "done" /\ MetroCase(m_in) /\ ~HasHonouredRemoteEntry(m_in))
  => m_result.match_type = "metro_area" /\ m_result.confidence = R(90)

\* San Jose against a list whose second entry is San Francisco
C15_Witness ==
  /\ m_pc = "done"
  /\ m_in.cand = "San Jose, CA"
  /\ m_in.hybrid_allowed
  /\ m_in.max_distance_miles = 0
  /\ Len(m_in.reqs) = 2
  /\ m_in.reqs[1] = "Seattle"
  /\ m_in.reqs[2] = "San Francisco"
  /\ m_result.match_type = "metro_area"
  /\ m_result.confidence = R(90)

\* one step of a running call leaves the job and the caller's list as they are
InputsKept == pc # "idle" => (job' = job /\ candidates' = candidates)

\* the objects of the i-th entry of the returned list: the RankedCandidate,
\* the CandidateScore it refers to and the ScoreComponent objects of that
\* score's components list
ObjectsOf(h, i) ==
  {h.rankings[i].id, h.scores[h.rankings[i].profile].id}
    \cup Range(h.scores[h.rankings[i].profile].components)

\* the objects of that entry have the classes the claim names
ClassesOf(h, i) ==
  /\ h.objects[h.rankings[i].id] = "RankedCandidate"
  /\ h.objects[h.scores[h.rankings[i].profile].id] = "CandidateScore"
  /\ \A o \in Range(h.scores[h.rankings[i].profile].components) : h.objects[o] = "ScoreComponent"

\* what a call returns was made by this call: every returned RankedCandidate,
\* its CandidateScore and each of its ScoreComponent objects did not exist
\* when the call began, no object is part of two returned entries, and the
\* score is one that score_candidate gives for this job and that candidate
OutputsFresh ==
  pc' = "done"
  => /\ Len(heap'.rankings) = Len(returned')
     /\ \A i \in 1..Len(returned') :
          /\ heap'.rankings[i].profile = returned'[i].profile
          /\ returned'[i].score \in ScoresOf(weights', job', candidates'[returned'[i].profile])
          /\ ClassesOf(heap', i)
          /\ Cardinality(ObjectsOf(heap', i)) = ComponentsPerScore + 2
          /\ \A o \in ObjectsOf(heap', i) : o > heap'.at_call /\ o <= Len(heap'.objects)
          /\ \A k \in 1..Len(returned') : k # i => ObjectsOf(heap', i) \cap ObjectsOf(heap', k) = {}

\* C16: no step of score_candidates / rank_candidates changes the job or the
\* caller's candidate list (contents and order), and every RankedCandidate,
\* CandidateScore and ScoreComponent returned is an object created in this
\* call and part of one returned entry only.
C16_InputsUnchanged == [][InputsKept /\ OutputsFresh]_vars

\* a call that filtered nobody and returned two equal profiles, each with
\* objects of its own
C16_Witness ==
  /\ pc = "done"
  /\ Len(candidates) = 2
  /\ candidates[1] = candidates[2]
  /\ Len(returned) = 2
  /\ returned[1].score = returned[2].score
  /\ ObjectsOf(heap, 1) \cap ObjectsOf(heap, 2) = {}
  /\ Len(heap.objects) = heap.at_call + 2 * (ComponentsPerScore + 2)

(***************************************************************************)
(* Properties of calls running side by side (checked under SpecConc).      *)
(***************************************************************************)
\* C17: whatever the interleaving, each call returns the score that
\* score_candidate gives for its candidate when it runs alone.
C17_InterleavingIndependent ==
  \A call \in Calls :
    c_pc[call] = "done"
    => c_result[call] \in ScoreTable[DEFAULT_WEIGHTS, c_job, c_cand[call]]

(***************************************************************************)
(* Properties of single scoring functions (checked under SpecCalls).       *)
(***************************************************************************)
Called(fn) == f_pc = "done" /\ f_call.fn = fn

\* one of the two skills is a base skill of skill_relations and the other is
\* in its list
RelatedSkills(a, b) ==
  \E k \in 1..Len(skill_relations) :
    \E x \in {a, b}, y \in {a, b} :
      x = skill_relations[k][1] /\ y \in skill_relations[k][2]

\* the sums that adding n_a times a and n_b times b to total gives, over the
\* orders of the additions
RECURSIVE Sums(_, _, _, _, _)
Sums(total, n_a, a, n_b, b) ==
  IF n_a = 0 /\ n_b = 0 THEN {total}
  ELSE (IF n_a > 0 THEN Sums(RAdd(total, a), n_a - 1, a, n_b, b) ELSE {})
       \cup (IF n_b > 0 THEN Sums(RAdd(total, b), n_a, a, n_b - 1, b) ELSE {})

\* the skills of W that are among S (exact), that only have a related skill
\* in S (related), and that only have a substring-partial skill in S (partial)
SkillClasses(W, S) ==
  LET exact == {s \in W : s \in S}
      related == {s \in W \ exact : \E cs \in S : RelatedSkills(s, cs)}
  IN  [exact |-> exact, related |-> related,
       partial |-> {s \in (W \ exact) \ related :
                      \E cs \in S : IsSubstr(s, cs) \/ IsSubstr(cs, s)}]

\* the required part: (exact + 0.6 related + 0.4 partial) / R * 80, 80 if R = 0
StatedRequiredParts(W, S) ==
  IF W = {} THEN {R(80)}
  ELSE {RMul(RDiv(RAdd(R(Cardinality(SkillClasses(W, S).exact)), credits),
                  R(Cardinality(W))), R(80)) :
          credits \in Sums(R(0), Cardinality(SkillClasses(W, S).related), Rat(6, 10),
                           Cardinality(SkillClasses(W, S).partial), Rat(4, 10))}

\* the preferred part: (0.5 exact + 0.3 related) / P * 20, 0 if P = 0
StatedPreferredParts(W, S) ==
  IF W = {} THEN {R(0)}
  ELSE {RMul(RDiv(credits, R(Cardinality(W))), R(20)) :
          credits \in Sums(R(0), Cardinality(SkillClasses(W, S).exact), Rat(5, 10),
                           Cardinality(SkillClasses(W, S).related), Rat(3, 10))}

\* C13: the raw skill score is the required part ((exact + 0.6 related-only +
\* 0.4 partial-only) / R * 80, 80 if R = 0) plus the preferred part ((0.5
\* exact + 0.3 related-only) / P * 20, 0 if P = 0), over the lower-cased
\* skill sets, the candidate's including the skills found in the experience
\* text; the credits are added up in some order.
C13_SkillFormula ==
  Called("_score_skills")
  => LET j == f_call.args.job
         c == f_call.args.candidate
         S == LowerSet(c.skills) \cup _extract_skills_from_experience(c)
     IN  f_result.raw_score
           \in {RAdd(required, preferred) :
                  required \in StatedRequiredParts(LowerSet(j.required_skills), S),
                  preferred \in StatedPreferredParts(LowerSet(j.preferred_skills), S)}

\* required {python, react}, candidate {python}, nothing else: raw score 40
C13_Witness ==
  /\ Called("_score_skills")
  /\ f_call.args.job.required_skills = <<"python", "react">>
  /\ f_call.args.job.preferred_skills = <<>>
  /\ f_call.args.candidate.skills = <<"python">>
  /\ f_call.args.candidate.experiences = <<>>
  /\ f_result.raw_score = R(40)

\* the raw score of the experience component for a years score: 0.4 years +
\* 0.35 relevance + 0.15 recency + 0.10 progression
ExperienceRaw(years_score, component, c) ==
  RAdd(RAdd(RAdd(RMul(years_score, Rat(40, 100)),
                 RMul(component.details.relevance_score, Rat(35, 100))),
            RMul(component.details.recency_score, Rat(15, 100))),
       RMul(_calculate_career_progression(c), Rat(10, 100)))

\* the years score for total years t, where a max is given when it is not None
StatedYearsScore(experience, t) ==
  IF ~experience.present THEN R(80)
  ELSE IF RLt(t, R(experience.min_years))
  THEN RMax(R(0), RSub(R(100), RMul(R(20), RSub(R(experience.min_years), t))))
  ELSE IF experience.max_years # -1 /\ RLt(R(experience.max_years), t)
  THEN RMax(R(70), RSub(R(100), RMul(R(5), RSub(t, R(experience.max_years)))))
  ELSE R(100)

\* C14: the years score is 100 within the required range, max(0, 100 - 20 *
\* shortfall) below the minimum, max(70, 100 - 5 * excess) above a given
\* maximum, and 80 without an experience requirement.
C14_YearsScore ==
  Called("_score_experience")
  => f_result.raw_score
       = ExperienceRaw(StatedYearsScore(f_call.args.job.experience, f_result.details.total_years),
                       f_result, f_call.args.candidate)


\* C18: calculate_distance returns the same distance for (A, B) as for (B, A),
\* and 0 for two identical coordinates.
C18_DistanceSymmetric ==
  Called("calculate_distance")
  => /\ f_result = calculate_distance(f_call.args.coord2, f_call.args.coord1)
     /\ (f_call.args.coord1 = f_call.args.coord2 => f_result = R(0))
     /\ RLeq(R(0), f_result)

C18_Witness ==
  /\ Called("calculate_distance")
  /\ f_call.args.coord1.city = "San Francisco"
  /\ f_call.args.coord2.city = "Seattle"
  /\ RLt(R(0), f_result)


\* the case of C19: a resolved, non-remote candidate, no entry for its own
\* city, and no honoured 'remote' entry
BestTierCase(a) ==
  /\ ~HasRemoteKeyword(a.cand)
  /\ ResolvedCandidate(a) # 0
  /\ ~HasExactEntry(a)
  /\ ~HasHonouredRemoteEntry(a)

\* the tiers that qualify for the candidate's city c and a resolved entry r,
\* each as <<match type, confidence>>
QualifyingTiers(c, r, hybrid_allowed, max_distance_miles) ==
  {t \in {<<"metro_area", R(90)>>,
          <<"state_match", IF hybrid_allowed THEN R(70) ELSE R(50)>>,
          <<"country_match", IF hybrid_allowed THEN R(40) ELSE R(30)>>,
          <<"within_radius",
            IF max_distance_miles = 0 THEN R(60)
            ELSE RMax(R(60), RSub(R(100), RMul(R(40), RDiv(calculate_distance(c, r),
                                                           R(max_distance_miles)))))>>} :
     \/ t[1] = "metro_area" /\ c.metro_area # "" /\ c.metro_area = r.metro_area
     \/ t[1] = "state_match" /\ c.state # "" /\ Lower(c.state) = Lower(r.state)
                             /\ c.country = "USA" /\ r.country = "USA"
     \/ t[1] = "country_match" /\ c.country = r.country
     \/ t[1] = "within_radius" /\ max_distance_miles # 0
                               /\ RLeq(calculate_distance(c, r), R(max_distance_miles))}

\* the qualifying tiers of all resolved entries of the call
AllQualifyingTiers(a) ==
  UNION {QualifyingTiers(us_and_international_cities[ResolvedCandidate(a)],
                         us_and_international_cities[ParsedLocations[a.reqs[i]]],
                         a.hybrid_allowed, a.max_distance_miles) :
           i \in {k \in 1..Len(a.reqs) : ParsedLocations[a.reqs[k]] # 0}}

\* the tiers of T with the greatest confidence
TopTiers(T) == {t \in T : \A u \in T : RLeq(u[2], t[2])}

\* the required list in the opposite order
ReversedEntries(a) ==
  [a EXCEPT !.reqs = [i \in 1..Len(a.reqs) |-> a.reqs[Len(a.reqs) + 1 - i]]]

\* C19: for a resolved, non-remote candidate with no exact-city entry and no
\* honoured 'remote' entry, the returned confidence is the greatest confidence
\* of the tiers that qualify for the resolved entries, with the match type of
\* a tier attaining it; NO_MATCH with confidence 0 when no tier qualifies; and
\* the confidence is the same for the required list in the opposite order.
C19_BestTierWins ==
  (m_pc = "done" /\ BestTierCase(m_in))
  => /\ IF AllQualifyingTiers(m_in) = {}
        THEN m_result.match_type = "no_match" /\ m_result.confidence = R(0)
        ELSE <<m_result.match_type, m_result.confidence>> \in TopTiers(AllQualifyingTiers(m_in))
     /\ m_result.confidence = match_location(ReversedEntries(m_in)).confidence

\* Los Angeles within the radius of the first entry and in the country of the
\* second: the earlier, closer tier is kept
C19_Witness ==
  /\ m_pc = "done"
  /\ BestTierCase(m_in)
  /\ Len(m_in.reqs) = 2
  /\ m_in.reqs[1] # m_in.reqs[2]
  /\ m_result.match_type = "within_radius"
  /\ m_result.matched_location = ParsedLocations[m_in.reqs[1]]
  /\ RLt(R(60), m_result.confidence)
  /\ RLt(m_result.confidence, R(90))


\* the raw score stated for match confidence c and multiplier m
StatedLocationRaw(c, m) ==
  IF RLeq(R(80), c) THEN RMin(R(100), RMul(c, m))
  ELSE IF RLeq(c, R(40)) THEN RMax(R(0), RDiv(c, m))
  ELSE c

\* the weight stated for the base weight and multiplier m
StatedLocationWeight(base_weight, m) ==
  IF RLt(R(1), m) THEN RMin(Rat(1, 2), RMul(base_weight, m)) ELSE base_weight

\* a _score_location call for a job with a location requirement that returned
ScoredLocation ==
  /\ Called("_score_location")
  /\ f_call.args.job.location.present
  /\ ~f_result.raised

\* C20: for a job with a location requirement and multiplier m, the location
\* component's raw score is min(100, c * m) for a match confidence c >= 80,
\* max(0, c / m) for c <= 40 and c otherwise; its weight is
\* min(0.5, base weight * m) when m > 1 and the base weight otherwise; and its
\* weighted score is that raw score times that weight.  (The call returns no
\* component only for m = 0 and c <= 40, where c / m is not defined.)
C20_LocationAdjustment ==
  /\ ScoredLocation
     => /\ f_result.component.raw_score
             = StatedLocationRaw(JobLocationMatch(f_call.args.job, f_call.args.candidate).confidence,
                                 f_call.args.job.location.location_weight_multiplier)
        /\ f_result.component.weight
             = StatedLocationWeight(f_call.args.weights["location_match"],
                                    f_call.args.job.location.location_weight_multiplier)
        /\ f_result.component.weighted_score
             = RMul(f_result.component.raw_score, f_result.component.weight)
  /\ (Called("_score_location") /\ f_call.args.job.location.present /\ f_result.raised)
     => /\ f_call.args.job.location.location_weight_multiplier = R(0)
        /\ RLeq(JobLocationMatch(f_call.args.job, f_call.args.candidate).confidence, R(40))

\* a country match of exactly 40 divided by a multiplier of 1.5
C20_Witness ==
  /\ ScoredLocation
  /\ JobLocationMatch(f_call.args.job, f_call.args.candidate).confidence = R(40)
  /\ f_call.args.job.location.location_weight_multiplier = Rat(3, 2)
  /\ f_result.component.raw_score = Rat(80, 3)
  /\ f_result.component.weight = RMul(Rat(10, 100), Rat(3, 2))
  /\ RLt(R(4), f_result.component.weighted_score)
  /\ RLt(f_result.component.weighted_score, Rat(401, 100))


\* the sum the trajectory score is built from: 20 or 10 per adjacent pair, the
\* gap bonus and the tenure bonus
TrajectorySum(c) ==
  LET n == Len(c.experiences)
      pairs == {i \in 1..n : i < n}
      advanced == {i \in pairs : _is_advancement(c.experiences[i + 1], c.experiences[i])}
      gaps == _calculate_employment_gaps(c)
      tenure == _calculate_average_tenure(c)
  IN  20 * Cardinality(advanced) + 10 * Cardinality(pairs \ advanced)
        + (IF gaps < 6 THEN 30 ELSE IF gaps < 12 THEN 20 ELSE 10)
        + (IF RLeq(R(2), tenure) THEN 30 ELSE IF RLeq(R(1), tenure) THEN 20 ELSE 10)

\* C21: with no adjacent pair of experiences (zero or one entry) the raw
\* trajectory score is the default 50; otherwise it is min(100, pair points +
\* gap bonus + tenure bonus).
C21_TrajectoryDefault ==
  Called("_score_career_trajectory")
  => f_result.raw_score
       = (IF Len(f_call.args.candidate.experiences) < 2 THEN R(50)
          ELSE RMin(R(100), R(TrajectorySum(f_call.args.candidate))))


\* the values of the levels whose keyword occurs in some degree of the candidate
DetectedLevelValues(c) ==
  {HierarchyValue(education_keywords[k][2]) :
     k \in {i \in 1..Len(education_keywords) :
              \E e \in 1..Len(c.education) :
                IsSubstr(education_keywords[i][1], Lower(c.education[e].degree))}}

\* the level score stated for the requirement and the candidate
StatedLevelScore(requirement, c) ==
  IF DetectedLevelValues(c) = {} THEN (IF requirement.required THEN 0 ELSE 50)
  ELSE LET highest == CHOOSE v \in DetectedLevelValues(c) : \A u \in DetectedLevelValues(c) : u <= v
           needed  == education_hierarchy(requirement.level)
       IN  IF highest >= needed THEN 100
           ELSE IF 100 - 25 * (needed - highest) > 0 THEN 100 - 25 * (needed - highest) ELSE 0

\* some education field of the candidate and some required field overlap
FieldsOverlap(requirement, c) ==
  \E e \in 1..Len(c.education), f \in 1..Len(requirement.fields) :
    \/ IsSubstr(Lower(requirement.fields[f]), Lower(c.education[e].field))
    \/ IsSubstr(Lower(c.education[e].field), Lower(requirement.fields[f]))

\* a _score_education call for a job with an education requirement
ScoredEducation == Called("_score_education") /\ f_call.args.job.education.present

\* the raw score for a level score and a field score
EducationRaw(level_score, field_score) ==
  RAdd(RMul(Rat(6, 10), R(level_score)), RMul(Rat(4, 10), R(field_score)))

\* C22 as stated: the field score is 75 only when the job requires no fields,
\* and 30 whenever fields are required and none overlaps.
C22_FieldSeventyFiveOnlyWithoutFields ==
  ScoredEducation
  => f_result.raw_score
       = EducationRaw(StatedLevelScore(f_call.args.job.education, f_call.args.candidate),
                      IF FieldsOverlap(f_call.args.job.education, f_call.args.candidate) THEN 100
                      ELSE IF Len(f_call.args.job.education.fields) > 0 THEN 30 ELSE 75)

\* C22: with an education requirement the raw score is 0.6 * level score +
\* 0.4 * field score; the level score is 100 for a highest detected level at
\* or above the required one, max(0, 100 - 25 * shortfall) below it, and 0
\* (required) or 50 (not required) when no level is detected; the field score
\* is 75 when the job requires no fields or the candidate has no education
\* entry, 100 when a candidate field and a required field overlap as
\* substrings, and 30 otherwise.
C22_EducationFormula ==
  ScoredEducation
  => f_result.raw_score
       = EducationRaw(StatedLevelScore(f_call.args.job.education, f_call.args.candidate),
                      IF Len(f_call.args.job.education.fields) = 0
                         \/ Len(f_call.args.candidate.education) = 0 THEN 75
                      ELSE IF FieldsOverlap(f_call.args.job.education, f_call.args.candidate)
                      THEN 100 ELSE 30)

\* fields are required and the candidate has no education entry: level score
\* 0, field score 75
C22_Witness ==
  /\ ScoredEducation
  /\ Len(f_call.args.job.education.fields) > 0
  /\ f_call.args.job.education.required
  /\ Len(f_call.args.candidate.education) = 0
  /\ f_result.raw_score = R(30)


\* the required skills of the job that the candidate's skills list lacks
AbsentSkills(j, c) ==
  {j.required_skills[i] : i \in {k \in 1..Len(j.required_skills) :
     \A s \in 1..Len(c.skills) : Lower(c.skills[s]) # Lower(j.required_skills[k])}}

ExperienceShort(j, c) ==
  j.experience.present /\ RLt(_calculate_total_experience(c), R(j.experience.min_years))

EducationUndetected(j, c) ==
  j.education.present /\ j.education.required /\ DetectedLevelValues(c) = {}

\* the entries of the returned list of a given kind
Reported(kind) == {f_result[i].subject : i \in {k \in 1..Len(f_result) : f_result[k].kind = kind}}

\* every entry due is in the returned list
AllDueReported(j, c) ==
  /\ AbsentSkills(j, c) \subseteq Reported("Required skill")
  /\ ExperienceShort(j, c) => Reported("Experience") # {}
  /\ EducationUndetected(j, c) => Reported("Education") # {}

\* C23 as stated: every absent required skill, an experience shortfall and an
\* undetected required education level are all in the list, for any number
\* of required skills.
C23_EveryMissingReported ==
  Called("_identify_missing_requirements") => AllDueReported(f_call.args.job, f_call.args.candidate)

\* the positions in the job's required_skills of the skills the candidate lacks
AbsentPositions(j, c) ==
  {k \in 1..Len(j.required_skills) :
     \A s \in 1..Len(c.skills) : Lower(c.skills[s]) # Lower(j.required_skills[k])}

\* the number of entries due: absent skills, experience shortfall, education
DueCount(j, c) ==
  Cardinality(AbsentPositions(j, c)) + (IF ExperienceShort(j, c) THEN 1 ELSE 0)
    + (IF EducationUndetected(j, c) THEN 1 ELSE 0)

\* the n-th entry due, n in 1..DueCount(j, c): the n-th absent skill in the
\* job's order; after the skills the experience shortfall with the years
\* missing; last the education level required
DueEntry(j, c, n) ==
  IF n <= Cardinality(AbsentPositions(j, c))
  THEN [kind |-> "Required skill",
        subject |-> j.required_skills[CHOOSE k \in AbsentPositions(j, c) :
                      Cardinality({a \in AbsentPositions(j, c) : a < k}) = n - 1],
        years |-> R(0)]
  ELSE IF ExperienceShort(j, c) /\ n = Cardinality(AbsentPositions(j, c)) + 1
  THEN [kind |-> "Experience", subject |-> "",
        years |-> RSub(R(j.experience.min_years), _calculate_total_experience(c))]
  ELSE [kind |-> "Education", subject |-> j.education.level, years |-> R(0)]

\* C23: the list holds the first five of the entries due (the absent
\* required skills in the job's order, then the experience shortfall, then
\* the undetected required education level): its n-th entry is the n-th
\* entry due, for every n up to five; all of them are in the list when at
\* most five are due, and the later ones are dropped otherwise.
C23_FirstFiveReported ==
  Called("_identify_missing_requirements")
  => /\ Len(f_result) = (IF DueCount(f_call.args.job, f_call.args.candidate) < 5
                         THEN DueCount(f_call.args.job, f_call.args.candidate) ELSE 5)
     /\ \A n \in 1..Len(f_result) :
          f_result[n] = DueEntry(f_call.args.job, f_call.args.candidate, n)
     /\ DueCount(f_call.args.job, f_call.args.candidate) <= 5
        => AllDueReported(f_call.args.job, f_call.args.candidate)

\* six absent skills and an experience shortfall: five skills are reported
C23_Witness ==
  /\ Called("_identify_missing_requirements")
  /\ Cardinality(AbsentPositions(f_call.args.job, f_call.args.candidate)) = 6
  /\ ExperienceShort(f_call.args.job, f_call.args.candidate)
  /\ Len(f_result) = 5
  /\ \A n \in 1..5 : f_result[n].kind = "Required skill"
                       /\ f_result[n].subject = f_call.args.job.required_skills[n]
  /\ Reported("Experience") = {}


(***************************************************************************)
(* Properties of rank_candidates (checked under Spec), continued.          *)
(***************************************************************************)
\* the running or finished call has no strict location filter
NotStrict == pc # "idle" /\ (~job.location.present \/ ~job.location.strict_location_filter)

\* C24: without a location requirement or with strict_location_filter false,
\* should_filter_candidate gives (False, '') for every candidate, the filter
\* loop keeps every candidate, and the returned list has exactly one entry
\* per input candidate; a candidate that should_filter_candidate filters is
\* never scored.
C24_FilterOnlyWhenStrict ==
  /\ NotStrict
     => /\ \A p \in 1..Len(candidates) :
             FilterTable[job, candidates[p]] = [should_filter |-> FALSE, reason |-> ""]
        /\ filtered_out_count = 0
        /\ pc \in {"score", "rank", "done"}
           => filtered_candidates = [p \in 1..Len(candidates) |-> p]
        /\ pc = "done"
           => /\ Len(returned) = Len(candidates)
              /\ \A p \in 1..Len(candidates) : Cardinality(Returned(p)) = 1
  /\ pc \in {"score", "rank", "done", "except", "raised"}
     => \A i \in 1..Len(scored_candidates) :
          ~FilterTable[job, candidates[scored_candidates[i][1]]].should_filter

\* a job whose location requirement is not strict returns both candidates,
\* one of them with a match that a strict filter rejects
C24_Witness ==
  /\ pc = "done"
  /\ job.location.present
  /\ ~job.location.strict_location_filter
  /\ Len(candidates) = 2
  /\ Len(returned) = 2
  /\ \E p \in 1..Len(candidates) :
       JobLocationMatch(job, candidates[p]).match_type \notin acceptable_types


\* the steps from one phase of score_candidates / rank_candidates to the next
PhaseSteps ==
  {<<"idle", "filter">>, <<"filter", "score">>, <<"score", "rank">>, <<"rank", "done">>,
   <<"score", "except">>, <<"rank", "except">>, <<"except", "raised">>}

\* every survivor of the filter has been scored and the scores are in their
\* final order
AllScoredAndSorted ==
  /\ filtered_out_count + Len(filtered_candidates) = Len(candidates)
  /\ Len(scored_candidates) = Len(filtered_candidates)
  /\ \A i \in 1..Len(scored_candidates) : \A k \in 1..Len(scored_candidates) :
       i < k => RLeq(scored_candidates[k][2].overall_score, scored_candidates[i][2].overall_score)

\* one step in phase order: a score is added only in the scoring phase, after
\* the filter loop and before any rank; a rank is assigned only in the rank
\* phase, when every survivor is scored and sorted, with the percentile of
\* the final survivor count
OrderedStep ==
  /\ pc' # pc => <<pc, pc'>> \in PhaseSteps
  /\ Len(filtered_candidates') > Len(filtered_candidates)
     => pc = "filter" /\ scored_candidates = <<>> /\ ranked = <<>>
  /\ Len(scored_candidates') > Len(scored_candidates)
     => /\ pc = "score"
        /\ filtered_out_count + Len(filtered_candidates) = Len(candidates)
        /\ ranked = <<>>
  /\ ranked' # ranked /\ ranked' # <<>>
     => /\ pc = "rank"
        /\ AllScoredAndSorted
        /\ UNCHANGED <<filtered_candidates, scored_candidates>>
        /\ Len(ranked') = Len(ranked) + 1
        /\ ranked'[Len(ranked')].rank = Len(ranked')
        /\ ranked'[Len(ranked')].percentile
             = (IF Len(filtered_candidates) > 1
                THEN RMul(Rat(Len(filtered_candidates) - Len(ranked'), Len(filtered_candidates)),
                          R(100))
                ELSE R(100))

\* C25: the phases of rank_candidates run in the order filter, score, sort,
\* rank: no rank or percentile is assigned before every survivor of the
\* batch is scored and sorted, and each percentile comes from the final
\* survivor count and the final order.
C25_PhasesOrdered == [][OrderedStep]_vars

\* the first of two survivors has its rank, the second not yet
C25_Witness ==
  /\ pc = "rank"
  /\ Len(scored_candidates) = 2
  /\ Len(ranked) = 1
  /\ ranked[1].rank = 1
  /\ ranked[1].percentile = R(50)


\* the first recommendation for a score figure
RecommendationFor(figure) ==
  IF RLeq(R(70), figure) THEN "Strong candidate - recommend interview"
  ELSE IF RLeq(R(55), figure) THEN "Promising candidate - consider for interview"
  ELSE "May not meet minimum requirements"

\* C28: the score figure of match_explanation equals the overall score and
\* so never exceeds 100, and the first recommendation is the one the
\* thresholds 70 and 55 give for the overall score.
C28_ExplanationFigureIsOverall ==
  \A i \in 1..Len(scored_candidates) :
    LET score == scored_candidates[i][2] IN
      /\ score.match_explanation.overall_score = score.overall_score
      /\ RLeq(score.match_explanation.overall_score, R(100))
      /\ score.recommendations[1] = RecommendationFor(score.overall_score)

\* the input positions that should_filter_candidate keeps
Survivors == {p \in 1..Len(candidates) : ~FilterTable[job, candidates[p]].should_filter}

\* C26: the returned list holds exactly the input candidates that
\* should_filter_candidate keeps, each once; the ranks are 1..N in list
\* order; and for N > 1 the percentiles lie in [0,100] and strictly decrease
\* with the rank, also between candidates with equal overall scores.
C26_SurvivorsRankedOnce ==
  pc = "done"
  => /\ Len(returned) = Cardinality(Survivors)
     /\ \A p \in 1..Len(candidates) :
          Cardinality(Returned(p)) = (IF p \in Survivors THEN 1 ELSE 0)
     /\ \A i \in 1..Len(returned) :
          /\ returned[i].profile \in Survivors
          /\ returned[i].rank = i
          /\ returned[i].score \in ScoresOf(weights, job, candidates[returned[i].profile])
     /\ Len(returned) > 1
        => /\ \A i \in 1..Len(returned) : InRange(returned[i].percentile)
           /\ \A i \in 1..(Len(returned) - 1) :
                RLt(returned[i + 1].percentile, returned[i].percentile)

\* two survivors with equal overall scores: percentiles 50 and 0
C26_Witness ==
  /\ pc = "done"
  /\ Len(returned) = 2
  /\ candidates[1] # candidates[2]
  /\ returned[1].score.overall_score = returned[2].score.overall_score
  /\ returned[1].percentile = R(50)
  /\ returned[2].percentile = R(0)


(***************************************************************************)
(* Properties of single scoring functions (checked under SpecCalls),       *)
(* continued.                                                              *)
(***************************************************************************)
\* the match_location arguments of a job and a candidate
JobMatchArgs(j, c) ==
  MatchArgs(c.location, j.location.cities \o j.location.states \o j.location.countries,
            j.location.remote, j.location.hybrid, j.location.max_distance_miles)

\* a resolved, non-remote candidate within the job's radius of some resolved
\* required location
WithinJobRadius(j, c) ==
  /\ j.location.max_distance_miles # 0
  /\ ~HasRemoteKeyword(c.location)
  /\ ResolvedCandidate(JobMatchArgs(j, c)) # 0
  /\ \E i \in 1..Len(JobMatchArgs(j, c).reqs) :
       /\ ParsedLocations[JobMatchArgs(j, c).reqs[i]] # 0
       /\ RLeq(calculate_distance(us_and_international_cities[ResolvedCandidate(JobMatchArgs(j, c))],
                                  us_and_international_cities[ParsedLocations[JobMatchArgs(j, c).reqs[i]]]),
               R(j.location.max_distance_miles))

\* C27: under strict location filtering with a radius, a resolvable
\* non-remote candidate within the radius of some resolved required location
\* is never filtered out, whatever hybrid_allowed and the state and country
\* relations are.
C27_WithinRadiusNeverFiltered ==
  (/\ Called("should_filter_candidate")
   /\ f_call.args.job.location.strict_location_filter
   /\ WithinJobRadius(f_call.args.job, f_call.args.candidate))
  => ~f_result.should_filter


\* C29: for a candidate without a current position, a last position that
\* ended longer ago never gives a higher recency score than one that ended
\* more recently.
C29_RecencyNonIncreasing ==
  Called("_calculate_experience_recency")
  => \A later \in RecencyEndDates :
       ToOrdinal(later) > ToOrdinal(f_call.args.candidate.experiences[1].end_date)
       => RLeq(f_result, _calculate_experience_recency(EndedCandidate(later)))


(***************************************************************************)
(* Properties of process_job_description (checked under SpecSessions).     *)
(***************************************************************************)

\* the call has just raised
JustRaised == p_pc = "except" /\ p_pc' = "raised"

\* the call has just returned
JustReturned == p_pc = "try" /\ p_pc' = "returned"

\* what the step that ends a call leaves behind, as stated
StatedOutcome ==
  /\ JustRaised =>
       /\ p_exception' = "Failed to process job description"
       /\ p_session_id \in DOMAIN sessions'
       /\ sessions'[p_session_id].status = "failed"
       /\ sessions'[p_session_id].error_message = p_exception
  /\ JustReturned =>
       /\ p_out' \notin DOMAIN sessions
       /\ DOMAIN sessions' = DOMAIN sessions \cup {p_out'}
       /\ sessions'[p_out'].status = "ready_for_search"
       /\ \A id \in DOMAIN sessions : sessions'[id] = sessions[id]

\* C30: when processing fails, a session with status 'failed' and the
\* failure's error message is in the sessions map by the time the 'Failed to
\* process job description' exception is raised; on success exactly one new
\* session with status 'ready_for_search' is stored and its id returned.
C30_FailedSessionStored == [][StatedOutcome]_vars
====
